---------------------------- MODULE Spec2Model ----------------------------
(***************************************************************************)
(* Page objects of the SauceDemo end-to-end suite (src/pages), the browser *)
(* session they drive, and the runner that executes scenarios built from   *)
(* them (src/playwright.config.ts).                                        *)
(*                                                                         *)
(* Text is a sequence of one-character strings, so that the string         *)
(* conversions of the page objects (getProductId, parseInt, parseFloat,    *)
(* trim) are computed character by character.                              *)
(***************************************************************************)
EXTENDS Naturals, Integers, Sequences, FiniteSets, TLC

VARIABLES
    ci,        \* process.env.CI is set
    scenario,  \* index of the scenario the single worker is executing
    attempt,   \* retries already spent on this scenario
    status,    \* "loading" | "rejected", then "running" | "passed" | "failed":
               \* state of the current attempt
    ctx,       \* the browser context (session) of the current attempt
    saved,     \* cart view recorded at the last logout (history of TC-15)
    run,       \* the runner's books: the test being executed, the scenarios
               \* whose context is open, the last error, failures, exit code
    input,     \* the name handed to getProductId by the normalisation harness
    pages      \* the fields of the scenario's page objects that can be assigned

vars == <<ci, scenario, attempt, status, ctx, saved, run, input, pages>>

(***************************************************************************)
(* Bounds of the model.                                                    *)
(***************************************************************************)
NumProducts == 3      \* products of the catalogue that are on sale
NumScenarios == 2     \* scenarios the runner executes, one after the other
MaxNameLen == 3       \* longest name handed to getProductId by the harness
MaxFaultAt == 1       \* an engine fault hits one of the first MaxFaultAt calls of an operation

(***************************************************************************)
(* Text helpers.                                                           *)
(***************************************************************************)
UpperCase == <<"A", "B", "C", "D", "E", "F", "G", "H", "I", "J", "K", "L", "M",
               "N", "O", "P", "Q", "R", "S", "T", "U", "V", "W", "X", "Y", "Z">>

LowerCase == <<"a", "b", "c", "d", "e", "f", "g", "h", "i", "j", "k", "l", "m",
               "n", "o", "p", "q", "r", "s", "t", "u", "v", "w", "x", "y", "z">>

Digits == <<"0", "1", "2", "3", "4", "5", "6", "7", "8", "9">>

\* The characters the regular expression class \s matches.
WhiteSpace == {" ", "\t", "\n"}

DigitValue == [ch \in {Digits[d] : d \in 1..10} |-> (CHOOSE d \in 1..10 : Digits[d] = ch) - 1]

\* String.prototype.toLowerCase, one character.
LowerChar ==
    [ch \in {UpperCase[k] : k \in 1..26} |->
        LowerCase[CHOOSE k \in 1..26 : UpperCase[k] = ch]]

toLowerCase(s) ==
    [i \in 1..Len(s) |-> IF s[i] \in DOMAIN LowerChar THEN LowerChar[s[i]] ELSE s[i]]

RECURSIVE DropChars(_, _)
\* s.replace(/[...]/g, ''): every character of the class cs removed.
DropChars(s, cs) ==
    IF s = <<>> THEN <<>>
    ELSE IF Head(s) \in cs THEN DropChars(Tail(s), cs)
    ELSE <<Head(s)>> \o DropChars(Tail(s), cs)

RECURSIVE SkipWhiteSpace(_)
SkipWhiteSpace(s) ==
    IF s # <<>> /\ Head(s) \in WhiteSpace THEN SkipWhiteSpace(Tail(s)) ELSE s

RECURSIVE ReplaceWhiteSpaceRuns(_)
\* s.replace(/\s+/g, '-'): every maximal run of white space becomes one '-'.
ReplaceWhiteSpaceRuns(s) ==
    IF s = <<>> THEN <<>>
    ELSE IF Head(s) \in WhiteSpace
         THEN <<"-">> \o ReplaceWhiteSpaceRuns(SkipWhiteSpace(s))
         ELSE <<Head(s)>> \o ReplaceWhiteSpaceRuns(Tail(s))

RECURSIVE ReplaceFirstWhiteSpaceRun(_)
\* s.replace(/\s+/, '-'): the same without the g flag.
ReplaceFirstWhiteSpaceRun(s) ==
    IF s = <<>> THEN <<>>
    ELSE IF Head(s) \in WhiteSpace
         THEN <<"-">> \o SkipWhiteSpace(s)
         ELSE <<Head(s)>> \o ReplaceFirstWhiteSpaceRun(Tail(s))

\* String.prototype.trim.
RECURSIVE TrimRight(_)
TrimRight(s) ==
    IF s # <<>> /\ s[Len(s)] \in WhiteSpace THEN TrimRight(SubSeq(s, 1, Len(s) - 1)) ELSE s

trim(s) == TrimRight(SkipWhiteSpace(s))

\* String.prototype.includes / expect(...).toContain on text.
Contains(s, sub) ==
    \E i \in 1..(Len(s) + 1) :
        /\ i + Len(sub) - 1 <= Len(s)
        /\ SubSeq(s, i, i + Len(sub) - 1) = sub

(***************************************************************************)
(* ProductsPage.getProductId and the locators derived from it.             *)
(***************************************************************************)
\* getProductId with a non-global white-space replacement.
getProductIdFirstRunOnly(productName) ==
    DropChars(DropChars(ReplaceFirstWhiteSpaceRun(toLowerCase(productName)),
                        {"(", ")"}), {"."})

getProductId(productName) ==
    DropChars(DropChars(ReplaceWhiteSpaceRuns(toLowerCase(productName)),
                        {"(", ")"}), {"."})


(***************************************************************************)
(* Fixture data (fixtures/test-data.json) and the catalogue the target     *)
(* application displays.                                                   *)
(***************************************************************************)
\* testData.products: fixture key -> display name.
testData_products ==
    [backpack |-> <<"S", "a", "u", "c", "e", " ", "L", "a", "b", "s", " ", "B", "a", "c", "k", "p", "a", "c", "k">>,
     bikeLight |-> <<"S", "a", "u", "c", "e", " ", "L", "a", "b", "s", " ", "B", "i", "k", "e", " ", "L", "i", "g", "h", "t">>,
     boltTShirt |-> <<"S", "a", "u", "c", "e", " ", "L", "a", "b", "s", " ", "B", "o", "l", "t", " ", "T", "-", "S", "h", "i", "r", "t">>,
     fleeceJacket |-> <<"S", "a", "u", "c", "e", " ", "L", "a", "b", "s", " ", "F", "l", "e", "e", "c", "e", " ", "J", "a", "c", "k", "e", "t">>,
     onesie |-> <<"S", "a", "u", "c", "e", " ", "L", "a", "b", "s", " ", "O", "n", "e", "s", "i", "e">>]

\* The products the specifications name, in the order the tests first use them.
ProductKeys == <<"backpack", "bikeLight", "boltTShirt", "fleeceJacket", "onesie">>

\* The identifier the target application puts in a product's data-test
\* attributes (add-to-cart-<id>, remove-<id>).
AppProductIds ==
    [backpack |-> <<"s", "a", "u", "c", "e", "-", "l", "a", "b", "s", "-", "b", "a", "c", "k", "p", "a", "c", "k">>,
     bikeLight |-> <<"s", "a", "u", "c", "e", "-", "l", "a", "b", "s", "-", "b", "i", "k", "e", "-", "l", "i", "g", "h", "t">>,
     boltTShirt |-> <<"s", "a", "u", "c", "e", "-", "l", "a", "b", "s", "-", "b", "o", "l", "t", "-", "t", "-", "s", "h", "i", "r", "t">>,
     fleeceJacket |-> <<"s", "a", "u", "c", "e", "-", "l", "a", "b", "s", "-", "f", "l", "e", "e", "c", "e", "-", "j", "a", "c", "k", "e", "t">>,
     onesie |-> <<"s", "a", "u", "c", "e", "-", "l", "a", "b", "s", "-", "o", "n", "e", "s", "i", "e">>]

\* The price the target application displays for a product, in cents.
AppPriceCents ==
    [backpack |-> 2999, bikeLight |-> 999, boltTShirt |-> 1599,
     fleeceJacket |-> 4999, onesie |-> 799]

\* The products on sale in the modelled catalogue.
Products == {ProductKeys[i] : i \in 1..NumProducts}

\* The price text the application renders: "$" dollars "." two digits.
RECURSIVE NatText(_)
NatText(n) ==
    IF n < 10 THEN <<Digits[n + 1]>>
    ELSE NatText(n \div 10) \o <<Digits[(n % 10) + 1]>>

PriceText(cents) ==
    <<"$">> \o NatText(cents \div 100) \o <<".">>
            \o <<Digits[((cents % 100) \div 10) + 1], Digits[(cents % 10) + 1]>>

(***************************************************************************)
(* Number parsing as the page objects use it.                              *)
(***************************************************************************)
NaN == -1

RECURSIVE DigitPrefix(_)
\* The longest prefix of s made of decimal digits.
DigitPrefix(s) ==
    IF s # <<>> /\ Head(s) \in DOMAIN DigitValue THEN <<Head(s)>> \o DigitPrefix(Tail(s)) ELSE <<>>

RECURSIVE DigitsValue(_)
DigitsValue(ds) ==
    IF ds = <<>> THEN 0
    ELSE 10 * DigitsValue(SubSeq(ds, 1, Len(ds) - 1)) + DigitValue[ds[Len(ds)]]

\* parseInt(text, 10): leading white space skipped, then the digit prefix;
\* NaN when there is none.  (No sign: the badge never renders one.)
parseInt(text) ==
    LET ds == DigitPrefix(SkipWhiteSpace(text))
    IN  IF ds = <<>> THEN NaN ELSE DigitsValue(ds)

\* parseFloat(text), in hundredths: digits, then optionally "." and digits.
parseFloat(text) ==
    LET t == SkipWhiteSpace(text)
        whole == DigitPrefix(t)
        rest == SubSeq(t, Len(whole) + 1, Len(t))
        frac == IF rest # <<>> /\ Head(rest) = "." THEN DigitPrefix(Tail(rest)) ELSE <<>>
        tenths == IF Len(frac) >= 1 THEN DigitValue[frac[1]] ELSE 0
        hundredths == IF Len(frac) >= 2 THEN DigitValue[frac[2]] ELSE 0
    IN  IF whole = <<>> /\ frac = <<>> THEN NaN
        ELSE 100 * DigitsValue(whole) + 10 * tenths + hundredths

RECURSIVE ReplaceFirst(_, _)
\* text.replace(ch, ''): the first occurrence of ch removed.
ReplaceFirst(text, ch) ==
    IF text = <<>> THEN <<>>
    ELSE IF Head(text) = ch THEN Tail(text)
    ELSE <<Head(text)>> \o ReplaceFirst(Tail(text), ch)

(***************************************************************************)
(* The order the target application displays the catalogue in.             *)
(***************************************************************************)
SortOptions == {"az", "za", "lohi", "hilo"}

\* Collation rank of a character: punctuation, then digits, then letters
\* with a lower-case letter just before its upper-case form.
CharRank ==
    [ch \in {" ", "-", "(", ")", "."} |-> IF ch = " " THEN 1 ELSE IF ch = "-" THEN 2 ELSE 3]
    @@ [ch \in {Digits[d] : d \in 1..10} |-> 10 + DigitValue[ch]]
    @@ [ch \in {LowerCase[k] : k \in 1..26} |->
           20 + 2 * (CHOOSE k \in 1..26 : LowerCase[k] = ch)]
    @@ [ch \in {UpperCase[k] : k \in 1..26} |->
           21 + 2 * (CHOOSE k \in 1..26 : UpperCase[k] = ch)]

RECURSIVE TextLeq(_, _)
\* a sorts at or before b (a.localeCompare(b) <= 0).
TextLeq(a, b) ==
    IF a = <<>> THEN TRUE
    ELSE IF b = <<>> THEN FALSE
    ELSE IF CharRank[Head(a)] # CharRank[Head(b)] THEN CharRank[Head(a)] < CharRank[Head(b)]
    ELSE TextLeq(Tail(a), Tail(b))

\* Product p is displayed at or before product q under sort option opt.
DisplayedBefore(p, q, opt) ==
    CASE opt = "az" -> TextLeq(testData_products[p], testData_products[q])
      [] opt = "za" -> TextLeq(testData_products[q], testData_products[p])
      [] opt = "lohi" -> AppPriceCents[p] <= AppPriceCents[q]
      [] opt = "hilo" -> AppPriceCents[q] <= AppPriceCents[p]

RECURSIVE InsertProduct(_, _, _)
InsertProduct(p, s, opt) ==
    IF s = <<>> THEN <<p>>
    ELSE IF DisplayedBefore(Head(s), p, opt) THEN <<Head(s)>> \o InsertProduct(p, Tail(s), opt)
    ELSE <<p>> \o s

RECURSIVE SortProducts(_, _)
\* Stable insertion sort of a sequence of product keys.
SortProducts(s, opt) ==
    IF s = <<>> THEN <<>>
    ELSE InsertProduct(s[Len(s)], SortProducts(SubSeq(s, 1, Len(s) - 1), opt), opt)

\* The application ignoring the selected option.
AppDisplayOrderUnsorted ==
    [opt \in SortOptions |-> [i \in 1..NumProducts |-> ProductKeys[i]]]

\* The catalogue in display order under sort option opt.
AppDisplayOrder ==
    [opt \in SortOptions |-> SortProducts([i \in 1..NumProducts |-> ProductKeys[i]], opt)]

(***************************************************************************)
(* The browser context: the target application's session as the page       *)
(* objects observe it.                                                     *)
(***************************************************************************)
\* The paths that require a logged-in session.
ProtectedPaths ==
    {"/inventory.html", "/cart.html", "/checkout-step-one.html",
     "/checkout-step-two.html", "/checkout-complete.html"}

PageOfPath(path) ==
    CASE path = "/" -> "login"
      [] path = "/inventory.html" -> "inventory"
      [] path = "/cart.html" -> "cart"
      [] path = "/checkout-step-one.html" -> "step1"
      [] path = "/checkout-step-two.html" -> "step2"
      [] path = "/checkout-complete.html" -> "complete"

\* A context as the runner provisions it: no page loaded, no session
\* cookie, empty storage.
FreshContext ==
    [page |-> "blank", auth |-> FALSE, cart |-> {}, item |-> "", sort |-> "az",
     error |-> "none", username |-> "", password |-> "", menu |-> FALSE,
     firstName |-> "", lastName |-> "", postalCode |-> ""]

\* A page load: what belongs to the page that is left is gone.
Land(c, page) ==
    [c EXCEPT !.page = page, !.item = "", !.sort = "az", !.error = "none",
              !.username = "", !.password = "", !.menu = FALSE,
              !.firstName = "", !.lastName = "", !.postalCode = ""]

\* page.goto(baseURL + path) with the redirect dropped: the protected page
\* is shown to a session that is not logged in.
AppGotoNoGuard(c, path) == Land(c, PageOfPath(path))

\* page.goto(baseURL + path): a protected path in a session that is not
\* logged in ends on the login page with the access error.
AppGoto(c, path) ==
    IF path \in ProtectedPaths /\ ~c.auth
    THEN [Land(c, "login") EXCEPT !.error = "access"]
    ELSE Land(c, PageOfPath(path))

ErrorText(error) ==
    CASE error = "mismatch" ->
             <<"E", "p", "i", "c", " ", "s", "a", "d", "f", "a", "c", "e", ":", " ", "U", "s", "e", "r", "n", "a", "m", "e", " ", "a", "n", "d", " ", "p", "a", "s", "s", "w", "o", "r", "d", " ", "d", "o", " ", "n", "o", "t", " ", "m", "a", "t", "c", "h">>
      [] error = "access" ->
             <<"E", "p", "i", "c", " ", "s", "a", "d", "f", "a", "c", "e", ":", " ", "Y", "o", "u", " ", "c", "a", "n", " ", "o", "n", "l", "y", " ", "a", "c", "c", "e", "s", "s">>
      [] error = "firstName" ->
             <<"E", "r", "r", "o", "r", ":", " ", "F", "i", "r", "s", "t", " ", "N", "a", "m", "e", " ", "i", "s", " ", "r", "e", "q", "u", "i", "r", "e", "d">>
      [] error = "lastName" ->
             <<"E", "r", "r", "o", "r", ":", " ", "L", "a", "s", "t", " ", "N", "a", "m", "e", " ", "i", "s", " ", "r", "e", "q", "u", "i", "r", "e", "d">>
      [] error = "postalCode" ->
             <<"E", "r", "r", "o", "r", ":", " ", "P", "o", "s", "t", "a", "l", " ", "C", "o", "d", "e", " ", "i", "s", " ", "r", "e", "q", "u", "i", "r", "e", "d">>
      [] OTHER -> <<>>

(***************************************************************************)
(* The rendered document: a sequence of elements in document order.  An    *)
(* element carries the attributes the locators of the page objects read:   *)
(* class, id, data-test (a fixed part and a product identifier), its text, *)
(* and what a click on it does.                                            *)
(***************************************************************************)
NoId == <<>>

Element(cls, id, dt, dtid, text, act, prod) ==
    [cls |-> cls, id |-> id, dt |-> dt, dtid |-> dtid, text |-> text,
     act |-> act, prod |-> prod]

\* The header of every page behind the login: menu, cart link, badge.
\* The badge is rendered only for a non-empty cart.
HeaderDom(c) ==
    <<Element("bm-burger-button", "react-burger-menu-btn", "", NoId, <<>>, "menu", "")>>
    \o (IF c.menu
        THEN <<Element("menu-item", "logout_sidebar_link", "", NoId, <<>>, "logout", "")>>
        ELSE <<>>)
    \o <<Element("shopping_cart_link", "", "", NoId, <<>>, "cart", "")>>
    \o (IF c.cart # {}
        THEN <<Element("shopping_cart_badge", "", "", NoId,
                       NatText(Cardinality(c.cart)), "", "")>>
        ELSE <<>>)

LoginDom(c) ==
    <<Element("input", "user-name", "username", NoId, <<>>, "", ""),
      Element("input", "password", "password", NoId, <<>>, "", ""),
      Element("submit", "login-button", "login-button", NoId, <<>>, "login", "")>>
    \o (IF c.error # "none"
        THEN <<Element("error", "", "error", NoId, ErrorText(c.error), "", "")>>
        ELSE <<>>)

\* One row of the products page: title, price, and the button whose
\* data-test is add-to-cart-<id> or remove-<id>.
InventoryRow(c, p) ==
    <<Element("inventory_item_name", "", "", NoId, testData_products[p], "title", p),
      Element("inventory_item_price", "", "", NoId, PriceText(AppPriceCents[p]), "", p),
      IF p \in c.cart
      THEN Element("btn_inventory", "", "remove-", AppProductIds[p], <<>>, "remove", p)
      ELSE Element("btn_inventory", "", "add-to-cart-", AppProductIds[p], <<>>, "add", p)>>

RECURSIVE InventoryRows(_, _)
InventoryRows(c, order) ==
    IF order = <<>> THEN <<>>
    ELSE InventoryRow(c, Head(order)) \o InventoryRows(c, Tail(order))

InventoryDom(c) ==
    <<Element("product_sort_container", "", "", NoId, <<>>, "", ""),
      Element("inventory_list", "", "", NoId, <<>>, "", "")>>
    \o InventoryRows(c, AppDisplayOrder[c.sort])

\* The details page of product c.item: one button, data-test add-to-cart
\* or remove, without the product identifier.
ItemDom(c) ==
    <<Element("", "", "back-to-products", NoId, <<>>, "back", ""),
      Element("", "", "inventory-item-name", NoId, testData_products[c.item], "", c.item),
      Element("", "", "inventory-item-price", NoId, PriceText(AppPriceCents[c.item]), "", c.item),
      IF c.item \in c.cart
      THEN Element("btn_inventory", "remove", "remove", NoId, <<>>, "remove", c.item)
      ELSE Element("btn_inventory", "add-to-cart", "add-to-cart", NoId, <<>>, "add", c.item)>>

\* One row of the cart page (class cart_item): the name and a button whose
\* id contains 'remove'.
CartRow(c, p) ==
    <<Element("cart_item", "", "", NoId, <<>>, "", p),
      Element("inventory_item_name", "", "", NoId, testData_products[p], "title", p),
      Element("cart_button", "remove", "remove-", AppProductIds[p], <<>>, "remove", p)>>

RECURSIVE CartRows(_, _)
CartRows(c, order) ==
    IF order = <<>> THEN <<>>
    ELSE (IF Head(order) \in c.cart THEN CartRow(c, Head(order)) ELSE <<>>)
         \o CartRows(c, Tail(order))

CartDom(c) ==
    CartRows(c, [i \in 1..NumProducts |-> ProductKeys[i]])
    \o <<Element("", "continue-shopping", "continue-shopping", NoId, <<>>, "continue-shopping", ""),
         Element("", "checkout", "checkout", NoId, <<>>, "checkout", "")>>

\* The checkout information form: three inputs, the two buttons, and the
\* error element once a submission has been rejected.
InfoDom(c) ==
    <<Element("input", "first-name", "firstName", NoId, <<>>, "", ""),
      Element("input", "last-name", "lastName", NoId, <<>>, "", ""),
      Element("input", "postal-code", "postalCode", NoId, <<>>, "", ""),
      Element("", "cancel", "cancel", NoId, <<>>, "cancel-info", ""),
      Element("submit", "continue", "continue", NoId, <<>>, "continue", "")>>
    \o (IF c.error # "none"
        THEN <<Element("error", "", "error", NoId, ErrorText(c.error), "", "")>>
        ELSE <<>>)

\* One row of the checkout overview: the name and the price of a product of
\* the cart.
RECURSIVE OverviewRows(_, _)
OverviewRows(c, order) ==
    IF order = <<>> THEN <<>>
    ELSE (IF Head(order) \in c.cart
          THEN <<Element("inventory_item_name", "", "", NoId,
                         testData_products[Head(order)], "", Head(order)),
                 Element("inventory_item_price", "", "", NoId,
                         PriceText(AppPriceCents[Head(order)]), "", Head(order))>>
          ELSE <<>>)
         \o OverviewRows(c, Tail(order))

OverviewDom(c) ==
    OverviewRows(c, [i \in 1..NumProducts |-> ProductKeys[i]])
    \o <<Element("", "cancel", "cancel", NoId, <<>>, "cancel-overview", ""),
         Element("", "finish", "finish", NoId, <<>>, "finish", "")>>

\* The order confirmation: header and message.
CompleteDom ==
    <<Element("complete-header", "", "complete-header", NoId,
              <<"T", "h", "a", "n", "k", " ", "y", "o", "u", " ", "f", "o", "r", " ", "y", "o", "u", "r", " ", "o", "r", "d", "e", "r", "!">>,
              "", ""),
      Element("complete-text", "", "complete-text", NoId,
              <<"Y", "o", "u", "r", " ", "o", "r", "d", "e", "r", " ", "h", "a", "s", " ", "b", "e", "e", "n", " ", "d", "i", "s", "p", "a", "t", "c", "h", "e", "d">>,
              "", ""),
      Element("", "back-to-products", "back-to-products", NoId, <<>>, "back", "")>>

\* The document of the page the context shows.
Dom(c) ==
    CASE c.page = "login" -> LoginDom(c)
      [] c.page = "inventory" -> HeaderDom(c) \o InventoryDom(c)
      [] c.page = "item" -> HeaderDom(c) \o ItemDom(c)
      [] c.page = "cart" -> HeaderDom(c) \o CartDom(c)
      [] c.page = "step1" -> HeaderDom(c) \o InfoDom(c)
      [] c.page = "step2" -> HeaderDom(c) \o OverviewDom(c)
      [] c.page = "complete" -> HeaderDom(c) \o CompleteDom
      [] OTHER -> <<>>

(***************************************************************************)
(* Locators.  A CSS class, id or data-test locator, or one of the two      *)
(* XPath locators of the cart page.                                        *)
(***************************************************************************)
ByClass(cls) == [kind |-> "class", a |-> cls, t |-> <<>>]
ById(id) == [kind |-> "id", a |-> id, t |-> <<>>]
\* [data-test="<fixed><productId>"]
ByDataTest(fixed, productId) == [kind |-> "data-test", a |-> fixed, t |-> productId]
\* //div[@class='cart_item']//div[@class='inventory_item_name' and text()='<name>']
ByCartItemName(name) == [kind |-> "xpath-cart-item", a |-> "", t |-> name]
\* ... /ancestor::div[@class='cart_item']//button[contains(@id, 'remove')]
ByCartItemRemove(name) == [kind |-> "xpath-cart-remove", a |-> "", t |-> name]

\* Element e of document dom is the name cell of a cart row showing name.
IsCartItemName(dom, e, name) ==
    /\ e.cls = "inventory_item_name"
    /\ e.text = name
    /\ \E j \in 1..Len(dom) : dom[j].cls = "cart_item" /\ dom[j].prod = e.prod

ElementMatches(dom, e, sel) ==
    CASE sel.kind = "class" -> e.cls = sel.a
      [] sel.kind = "id" -> e.id = sel.a
      [] sel.kind = "data-test" -> e.dt = sel.a /\ e.dtid = sel.t
      [] sel.kind = "xpath-cart-item" -> IsCartItemName(dom, e, sel.t)
      [] sel.kind = "xpath-cart-remove" ->
             /\ e.id = "remove"
             /\ \E j \in 1..Len(dom) :
                    IsCartItemName(dom, dom[j], sel.t) /\ dom[j].prod = e.prod

RECURSIVE QueryFrom(_, _, _)
QueryFrom(dom, i, sel) ==
    IF i > Len(dom) THEN <<>>
    ELSE (IF ElementMatches(dom, dom[i], sel) THEN <<dom[i]>> ELSE <<>>)
         \o QueryFrom(dom, i + 1, sel)

\* page.locator(sel): the matching elements in document order.
Query(c, sel) == QueryFrom(Dom(c), 1, sel)

(***************************************************************************)
(* What the target application does on a click and on a selection.         *)
(***************************************************************************)
\* The application dropping the cart at logout.
AppLogoutClearsCart(c) == [Land(c, "login") EXCEPT !.auth = FALSE, !.cart = {}]

\* Logout ends the session; the cart is kept in the browser's storage.
AppLogout(c) == [Land(c, "login") EXCEPT !.auth = FALSE]

\* The login button: the inventory page for the valid credential pair, the
\* mismatch error otherwise.
AppLogin(c) ==
    IF c.username = "valid" /\ c.password = "valid"
    THEN [Land(c, "inventory") EXCEPT !.auth = TRUE]
    ELSE [c EXCEPT !.error = "mismatch"]

\* The checkout button of the cart page with the empty cart refused.
AppCheckoutRefusingEmptyCart(c) == IF c.cart = {} THEN c ELSE Land(c, "step1")

\* The checkout button of the cart page emptying the cart.
AppCheckoutEmptiesCart(c) == [Land(c, "step1") EXCEPT !.cart = {}]

\* The checkout button of the cart page: the information form, whatever the
\* cart holds.
AppCheckout(c) == Land(c, "step1")

\* The continue button of the information form: the first empty field is
\* reported and the form stays; any non-empty values are accepted.
AppContinue(c) ==
    IF c.firstName = "" THEN [c EXCEPT !.error = "firstName"]
    ELSE IF c.lastName = "" THEN [c EXCEPT !.error = "lastName"]
    ELSE IF c.postalCode = "" THEN [c EXCEPT !.error = "postalCode"]
    ELSE Land(c, "step2")

\* The finish button of the overview: the order is placed and the cart is
\* emptied.
AppFinish(c) == [Land(c, "complete") EXCEPT !.cart = {}]

AppClick(c, e) ==
    CASE e.act = "login" -> AppLogin(c)
      [] e.act = "logout" -> AppLogout(c)
      [] e.act = "menu" -> [c EXCEPT !.menu = TRUE]
      [] e.act = "add" -> [c EXCEPT !.cart = c.cart \cup {e.prod}]
      [] e.act = "remove" -> [c EXCEPT !.cart = c.cart \ {e.prod}]
      [] e.act = "title" -> [Land(c, "item") EXCEPT !.item = e.prod]
      [] e.act = "back" -> Land(c, "inventory")
      [] e.act = "cart" -> Land(c, "cart")
      [] e.act = "continue-shopping" -> Land(c, "inventory")
      [] e.act = "checkout" -> AppCheckout(c)
      [] e.act = "continue" -> AppContinue(c)
      [] e.act = "cancel-info" -> Land(c, "cart")
      [] e.act = "cancel-overview" -> Land(c, "inventory")
      [] e.act = "finish" -> AppFinish(c)
      [] OTHER -> c

\* The application emptying the cart when the list is sorted again.
AppSelectSortClearsCart(c, option) == [c EXCEPT !.sort = option, !.cart = {}]

AppSelectSort(c, option) == [c EXCEPT !.sort = option]

(***************************************************************************)
(* The automation engine.  A call resolves its locator against the         *)
(* document; an action on no element (time-out) or on several (strict      *)
(* mode) fails.  A result is [ok, ctx, b, n, t]: whether the call          *)
(* succeeded, the context after it, and its boolean, number or text.       *)
(***************************************************************************)
NoLocator == [kind |-> "none", a |-> "", t |-> <<>>]

\* use.baseURL
baseURL == <<"h", "t", "t", "p", "s", ":", "/", "/", "w", "w", "w", ".", "s", "a", "u", "c", "e", "d", "e", "m", "o", ".", "c", "o", "m">>

\* new BasePage(page): the automation handle and the base URL.  The
\* locators of the subclasses are readonly and stay the definitions below.
BasePage ==
    [page |-> "page",
     baseURL |-> <<"h", "t", "t", "p", "s", ":", "/", "/", "w", "w", "w", ".", "s", "a", "u", "c", "e", "d", "e", "m", "o", ".", "c", "o", "m">>]

EngineCall(k, sel, arg, i) == [k |-> k, sel |-> sel, arg |-> arg, i |-> i]

EngineResult(ok, c, b, n, t) == [ok |-> ok, ctx |-> c, b |-> b, n |-> n, t |-> t]

\* const y = await <value>; <rest>: the value is computed once and handed on.
Then(y, Rest(_)) == Rest(y)

Engine(c, call) ==
    Then(Query(c, call.sel), LAMBDA found :
        CASE call.k = "goto" ->
                 IF call.arg[1] = baseURL
                 THEN EngineResult(TRUE, AppGoto(c, call.arg[2]), FALSE, 0, <<>>)
                 ELSE EngineResult(FALSE, c, FALSE, 0, <<>>)
          [] call.k \in {"click", "nth.click"} ->
                 IF (call.k = "click" /\ Len(found) = 1)
                    \/ (call.k = "nth.click" /\ call.i <= Len(found))
                 THEN EngineResult(TRUE,
                                   AppClick(c, found[IF call.k = "click" THEN 1 ELSE call.i]),
                                   FALSE, 0, <<>>)
                 ELSE EngineResult(FALSE, c, FALSE, 0, <<>>)
          [] call.k = "fill" ->
                 IF Len(found) = 1 /\ found[1].dt = "username"
                 THEN EngineResult(TRUE, [c EXCEPT !.username = call.arg], FALSE, 0, <<>>)
                 ELSE IF Len(found) = 1 /\ found[1].dt = "password"
                 THEN EngineResult(TRUE, [c EXCEPT !.password = call.arg], FALSE, 0, <<>>)
                 ELSE IF Len(found) = 1 /\ found[1].dt = "firstName"
                 THEN EngineResult(TRUE, [c EXCEPT !.firstName = call.arg], FALSE, 0, <<>>)
                 ELSE IF Len(found) = 1 /\ found[1].dt = "lastName"
                 THEN EngineResult(TRUE, [c EXCEPT !.lastName = call.arg], FALSE, 0, <<>>)
                 ELSE IF Len(found) = 1 /\ found[1].dt = "postalCode"
                 THEN EngineResult(TRUE, [c EXCEPT !.postalCode = call.arg], FALSE, 0, <<>>)
                 ELSE EngineResult(FALSE, c, FALSE, 0, <<>>)
          [] call.k = "selectOption" ->
                 IF Len(found) = 1 /\ call.arg \in SortOptions
                 THEN EngineResult(TRUE, AppSelectSort(c, call.arg), FALSE, 0, <<>>)
                 ELSE EngineResult(FALSE, c, FALSE, 0, <<>>)
          [] call.k = "textContent" ->
                 IF Len(found) = 1 THEN EngineResult(TRUE, c, FALSE, 0, found[1].text)
                 ELSE EngineResult(FALSE, c, FALSE, 0, <<>>)
          [] call.k = "isVisible" ->
                 IF Len(found) <= 1 THEN EngineResult(TRUE, c, Len(found) = 1, 0, <<>>)
                 ELSE EngineResult(FALSE, c, FALSE, 0, <<>>)
          [] call.k = "waitFor" ->
                 IF Len(found) = 1 THEN EngineResult(TRUE, c, FALSE, 0, <<>>)
                 ELSE EngineResult(FALSE, c, FALSE, 0, <<>>)
          [] call.k = "count" -> EngineResult(TRUE, c, FALSE, Len(found), <<>>)
          [] call.k = "allTextContents" ->
                 EngineResult(TRUE, c, FALSE, 0, [i \in 1..Len(found) |-> found[i].text])
          [] call.k = "nth.textContent" ->
                 IF call.i <= Len(found)
                 THEN EngineResult(TRUE, c, FALSE, 0, found[call.i].text)
                 ELSE EngineResult(FALSE, c, FALSE, 0, <<>>))

(***************************************************************************)
(* Execution of a page-object operation: the context, the engine calls     *)
(* issued so far (each with its outcome), whether the operation has thrown,*)
(* and the value of the last call.  fault is the position of the engine    *)
(* call that the engine fails on its own account (0: none).                *)
(***************************************************************************)
Begin(c) ==
    [ctx |-> c, log |-> <<>>, threw |-> FALSE, err |-> "", b |-> FALSE, n |-> 0,
     t |-> <<>>, l |-> <<>>, ns |-> <<>>, this |-> pages]

\* await <engine call>: nothing is issued once the operation has thrown.
Await(x, call, fault) ==
    IF x.threw THEN x
    ELSE Then(Engine(x.ctx, call), LAMBDA r :
             Then(r.ok /\ fault # Len(x.log) + 1, LAMBDA ok :
                 [ctx |-> IF ok THEN r.ctx ELSE x.ctx,
                  log |-> Append(x.log, [k |-> call.k, sel |-> call.sel, i |-> call.i,
                                         ok |-> ok]),
                  threw |-> ~ok,
                  err |-> IF ok THEN "" ELSE "engine",
                  b |-> ok /\ r.b,
                  n |-> IF ok THEN r.n ELSE 0,
                  t |-> IF ok THEN r.t ELSE <<>>,
                  l |-> x.l,
                  ns |-> x.ns,
                  this |-> x.this]))

(***************************************************************************)
(* BasePage.                                                               *)
(***************************************************************************)
\* goto that takes the address it loads for the base of the next one.
gotoRebasing(x, path, fault) ==
    Then(Await(x, EngineCall("goto", NoLocator, <<x.this.baseURL, path>>, 0), fault),
         LAMBDA y : [y EXCEPT !.this.baseURL = @ \o <<"/">>])

\* this.page.goto(`${this.baseURL}${path}`)
goto(x, path, fault) ==
    Await(x, EngineCall("goto", NoLocator, <<x.this.baseURL, path>>, 0), fault)

\* click that issues the engine call again when it has failed.
clickWithRetry(x, selector, fault) ==
    Then(Await(x, EngineCall("click", selector, "", 0), fault), LAMBDA y :
        IF x.threw \/ ~y.threw THEN y
        ELSE Await([y EXCEPT !.threw = FALSE], EngineCall("click", selector, "", 0), fault))

\* click that swallows the failure of its engine call.
clickIgnoringFailure(x, selector, fault) ==
    Then(Await(x, EngineCall("click", selector, "", 0), fault), LAMBDA y :
        [y EXCEPT !.threw = FALSE, !.err = ""])

click(x, selector, fault) == Await(x, EngineCall("click", selector, "", 0), fault)

fill(x, selector, text, fault) == Await(x, EngineCall("fill", selector, text, 0), fault)

\* text?.trim() || ''
getText(x, selector, fault) ==
    Then(Await(x, EngineCall("textContent", selector, "", 0), fault), LAMBDA y :
        [y EXCEPT !.t = trim(y.t)])

\* isVisible without the try / catch.
isVisiblePropagating(x, selector, fault) ==
    Await(x, EngineCall("isVisible", selector, "", 0), fault)

\* try { return await locator.isVisible() } catch { return false }
isVisible(x, selector, fault) ==
    IF x.threw THEN x
    ELSE Then(Await(x, EngineCall("isVisible", selector, "", 0), fault), LAMBDA y :
             [y EXCEPT !.threw = FALSE, !.err = "", !.b = ~y.threw /\ y.b])

(***************************************************************************)
(* LoginPage.                                                              *)
(***************************************************************************)
\* The selectors of the page objects, one record per class.
LoginPage ==
    [usernameInput |-> ByDataTest("username", NoId),
     passwordInput |-> ByDataTest("password", NoId),
     loginButton |-> ByDataTest("login-button", NoId),
     errorMessage |-> ByDataTest("error", NoId)]

LoginPage_navigate(x, fault) == goto(x, "/", fault)

\* login that leaves the password input as it is.
LoginPage_loginWithoutPassword(x, username, password, fault) ==
    click(fill(x, LoginPage.usernameInput, username, fault), LoginPage.loginButton, fault)

LoginPage_login(x, username, password, fault) ==
    click(fill(fill(x, LoginPage.usernameInput, username, fault),
               LoginPage.passwordInput, password, fault),
          LoginPage.loginButton, fault)

LoginPage_getErrorMessage(x, fault) == getText(x, LoginPage.errorMessage, fault)

LoginPage_isErrorDisplayed(x, fault) == isVisible(x, LoginPage.errorMessage, fault)

(***************************************************************************)
(* ProductsPage.                                                           *)
(***************************************************************************)
ProductsPage ==
    [cartBadge |-> ByClass("shopping_cart_badge"),
     sortDropdown |-> ByClass("product_sort_container"),
     cartLink |-> ByClass("shopping_cart_link"),
     productName |-> ByClass("inventory_item_name"),
     productPrice |-> ByClass("inventory_item_price")]

ProductsPage_getAddToCartButtonSelector(productName) ==
    ByDataTest("add-to-cart-", getProductId(productName))

ProductsPage_getRemoveButtonSelector(productName) ==
    ByDataTest("remove-", getProductId(productName))

ProductsPage_addProductToCart(x, productName, fault) ==
    click(x, ProductsPage_getAddToCartButtonSelector(productName), fault)

ProductsPage_removeProductFromCart(x, productName, fault) ==
    click(x, ProductsPage_getRemoveButtonSelector(productName), fault)

\* parseInt(text, 10) || 0
ParseIntOrZero(text) == Then(parseInt(text), LAMBDA v : IF v = NaN THEN 0 ELSE v)

\* getCartBadgeCount counting the badge element instead of reading it.
ProductsPage_getCartBadgeCountPresence(x, fault) ==
    Then(isVisible(x, ProductsPage.cartBadge, fault), LAMBDA v :
        [v EXCEPT !.n = IF v.b THEN 1 ELSE 0])

ProductsPage_getCartBadgeCount(x, fault) ==
    Then(isVisible(x, ProductsPage.cartBadge, fault), LAMBDA v :
        IF v.threw THEN v
        ELSE IF ~v.b THEN [v EXCEPT !.n = 0]
        ELSE Then(getText(v, ProductsPage.cartBadge, fault), LAMBDA g :
                 IF g.threw THEN g ELSE [g EXCEPT !.n = ParseIntOrZero(g.t)]))

RECURSIVE ClickTitleFrom(_, _, _, _, _)
\* The loop of clickProductTitle from index i (1-based) of count titles.
ClickTitleFrom(x, i, count, productName, fault) ==
    IF x.threw THEN x
    ELSE IF i > count THEN [x EXCEPT !.threw = TRUE, !.err = "not-found"]
    ELSE Then(Await(x, EngineCall("nth.textContent", ProductsPage.productName, "", i), fault),
              LAMBDA y :
                 IF y.threw \/ trim(y.t) # productName
                 THEN ClickTitleFrom(y, i + 1, count, productName, fault)
                 ELSE Await(y, EngineCall("nth.click", ProductsPage.productName, "", i), fault))

\* clickProductTitle clicking the first title whatever its text.
ProductsPage_clickProductTitleOfFirstRow(x, productName, fault) ==
    Then(Await(x, EngineCall("count", ProductsPage.productName, "", 0), fault), LAMBDA y :
        IF y.threw THEN y
        ELSE IF y.n = 0 THEN [y EXCEPT !.threw = TRUE, !.err = "not-found"]
        ELSE Await(y, EngineCall("nth.click", ProductsPage.productName, "", 1), fault))

ProductsPage_clickProductTitle(x, productName, fault) ==
    Then(Await(x, EngineCall("count", ProductsPage.productName, "", 0), fault), LAMBDA y :
        ClickTitleFrom(y, 1, y.n, productName, fault))

ProductsPage_selectSortOption(x, option, fault) ==
    Await(x, EngineCall("selectOption", ProductsPage.sortDropdown, option, 0), fault)

RECURSIVE CollectTexts(_, _, _, _, _)
\* for (i < count) { text = await nth(i).textContent(); if (text) push(text) }
CollectTexts(x, selector, i, count, fault) ==
    IF x.threw \/ i > count THEN x
    ELSE Then(Await(x, EngineCall("nth.textContent", selector, "", i), fault), LAMBDA y :
             CollectTexts(IF y.threw \/ y.t = <<>> THEN y
                          ELSE [y EXCEPT !.l = Append(y.l, y.t)],
                          selector, i + 1, count, fault))

\* locator.all(), then the text of each element; empty texts are skipped.
AllTexts(x, selector, fault) ==
    Then(Await(x, EngineCall("count", selector, "", 0), fault), LAMBDA y :
        CollectTexts(y, selector, 1, y.n, fault))

\* getProductNames putting each name in front of those read before it.
ProductsPage_getProductNamesLastFirst(x, fault) ==
    Then(AllTexts(x, ProductsPage.productName, fault), LAMBDA z :
        [z EXCEPT !.l = [i \in 1..Len(z.l) |-> trim(z.l[Len(z.l) + 1 - i])]])

ProductsPage_getProductNames(x, fault) ==
    Then(AllTexts(x, ProductsPage.productName, fault), LAMBDA z :
        [z EXCEPT !.l = [i \in 1..Len(z.l) |-> trim(z.l[i])]])

\* getProductPrices parsing the price text with its "$".
ProductsPage_getProductPricesKeepDollar(x, fault) ==
    Then(AllTexts(x, ProductsPage.productPrice, fault), LAMBDA z :
        [z EXCEPT !.ns = [i \in 1..Len(z.l) |-> parseFloat(z.l[i])], !.l = <<>>])

\* parseFloat(priceText.replace('$', '')) of every non-empty price text.
ProductsPage_getProductPrices(x, fault) ==
    Then(AllTexts(x, ProductsPage.productPrice, fault), LAMBDA z :
        [z EXCEPT !.ns = [i \in 1..Len(z.l) |-> parseFloat(ReplaceFirst(z.l[i], "$"))],
                  !.l = <<>>])

ProductsPage_isProductAdded(x, productName, fault) ==
    isVisible(x, ProductsPage_getRemoveButtonSelector(productName), fault)

ProductsPage_goToCart(x, fault) == click(x, ProductsPage.cartLink, fault)

(***************************************************************************)
(* ProductDetailsPage.                                                     *)
(***************************************************************************)
ProductDetailsPage ==
    [productNameSelector |-> ByDataTest("inventory-item-name", NoId),
     addToCartButtonSelector |-> ByDataTest("add-to-cart", NoId),
     removeButtonSelector |-> ByDataTest("remove", NoId),
     backButtonSelector |-> ByDataTest("back-to-products", NoId)]

ProductDetailsPage_getProductName(x, fault) ==
    getText(x, ProductDetailsPage.productNameSelector, fault)

ProductDetailsPage_addToCart(x, fault) ==
    click(x, ProductDetailsPage.addToCartButtonSelector, fault)

ProductDetailsPage_removeFromCart(x, fault) ==
    click(x, ProductDetailsPage.removeButtonSelector, fault)

ProductDetailsPage_isAddToCartButtonVisible(x, fault) ==
    isVisible(x, ProductDetailsPage.addToCartButtonSelector, fault)

\* isRemoveButtonVisible looking for the Add-to-Cart button.
ProductDetailsPage_isRemoveButtonVisibleOfAddButton(x, fault) ==
    isVisible(x, ProductDetailsPage.addToCartButtonSelector, fault)

ProductDetailsPage_isRemoveButtonVisible(x, fault) ==
    isVisible(x, ProductDetailsPage.removeButtonSelector, fault)

ProductDetailsPage_goBackToProducts(x, fault) ==
    click(x, ProductDetailsPage.backButtonSelector, fault)

(***************************************************************************)
(* CartPage.                                                               *)
(***************************************************************************)
CartPage ==
    [cartItems |-> ByClass("cart_item"),
     cartItemName |-> ByClass("inventory_item_name"),
     continueShoppingButton |-> ById("continue-shopping"),
     checkoutButton |-> ById("checkout"),
     cartBadge |-> ByClass("shopping_cart_badge")]

CartPage_getRemoveButtonSelector(productName) == ByCartItemRemove(productName)

CartPage_getCartItemSelector(productName) == ByCartItemName(productName)

CartPage_getCartItemNames(x, fault) ==
    Then(AllTexts(x, CartPage.cartItemName, fault), LAMBDA z :
        [z EXCEPT !.l = [i \in 1..Len(z.l) |-> trim(z.l[i])]])

\* removeItem clicking the remove button of the first row.
CartPage_removeItemOfFirstRow(x, productName, fault) ==
    Await(x, EngineCall("nth.click", ById("remove"), "", 1), fault)

\* this.page.locator(removeSelector).click()
CartPage_removeItem(x, productName, fault) ==
    Await(x, EngineCall("click", CartPage_getRemoveButtonSelector(productName), "", 0), fault)

CartPage_continueShopping(x, fault) == click(x, CartPage.continueShoppingButton, fault)

CartPage_proceedToCheckout(x, fault) == click(x, CartPage.checkoutButton, fault)

CartPage_isItemInCart(x, productName, fault) ==
    isVisible(x, CartPage_getCartItemSelector(productName), fault)

\* getCartItemCount reading the badge without the visibility check.
CartPage_getCartItemCountUnguarded(x, fault) ==
    Then(getText(x, CartPage.cartBadge, fault), LAMBDA g :
        IF g.threw THEN g ELSE [g EXCEPT !.n = ParseIntOrZero(g.t)])

CartPage_getCartItemCount(x, fault) ==
    Then(isVisible(x, CartPage.cartBadge, fault), LAMBDA v :
        IF v.threw THEN v
        ELSE IF ~v.b THEN [v EXCEPT !.n = 0]
        ELSE Then(getText(v, CartPage.cartBadge, fault), LAMBDA g :
                 IF g.threw THEN g ELSE [g EXCEPT !.n = ParseIntOrZero(g.t)]))

CartPage_navigateToCart(x, fault) == goto(x, "/cart.html", fault)

CartPage_getCartItemElementCount(x, fault) ==
    Await(x, EngineCall("count", CartPage.cartItems, "", 0), fault)

\* isCartEmpty taking a cart of one row for empty.
CartPage_isCartEmptyBelowTwo(x, fault) ==
    Then(CartPage_getCartItemElementCount(x, fault), LAMBDA y :
        [y EXCEPT !.b = ~y.threw /\ y.n <= 1])

CartPage_isCartEmpty(x, fault) ==
    Then(CartPage_getCartItemElementCount(x, fault), LAMBDA y :
        [y EXCEPT !.b = ~y.threw /\ y.n = 0])

(***************************************************************************)
(* CheckoutInfoPage.                                                       *)
(***************************************************************************)
CheckoutInfoPage ==
    [firstNameInput |-> ByDataTest("firstName", NoId),
     lastNameInput |-> ByDataTest("lastName", NoId),
     postalCodeInput |-> ByDataTest("postalCode", NoId),
     continueButton |-> ByDataTest("continue", NoId),
     cancelButton |-> ByDataTest("cancel", NoId),
     errorMessage |-> ByDataTest("error", NoId)]

\* fillCheckoutInfo with the two name inputs taken for each other.
CheckoutInfoPage_fillCheckoutInfoSwappedNames(x, firstName, lastName, postalCode, fault) ==
    fill(fill(fill(x, CheckoutInfoPage.lastNameInput, firstName, fault),
              CheckoutInfoPage.firstNameInput, lastName, fault),
         CheckoutInfoPage.postalCodeInput, postalCode, fault)

\* fillCheckoutInfo filling the postal code first.
CheckoutInfoPage_fillCheckoutInfoPostalFirst(x, firstName, lastName, postalCode, fault) ==
    fill(fill(fill(x, CheckoutInfoPage.postalCodeInput, postalCode, fault),
              CheckoutInfoPage.lastNameInput, lastName, fault),
         CheckoutInfoPage.firstNameInput, firstName, fault)

CheckoutInfoPage_fillCheckoutInfo(x, firstName, lastName, postalCode, fault) ==
    fill(fill(fill(x, CheckoutInfoPage.firstNameInput, firstName, fault),
              CheckoutInfoPage.lastNameInput, lastName, fault),
         CheckoutInfoPage.postalCodeInput, postalCode, fault)

CheckoutInfoPage_clickContinue(x, fault) == click(x, CheckoutInfoPage.continueButton, fault)

CheckoutInfoPage_clickCancel(x, fault) == click(x, CheckoutInfoPage.cancelButton, fault)

CheckoutInfoPage_getErrorMessage(x, fault) ==
    getText(x, CheckoutInfoPage.errorMessage, fault)

CheckoutInfoPage_isErrorDisplayed(x, fault) ==
    isVisible(x, CheckoutInfoPage.errorMessage, fault)

(***************************************************************************)
(* CheckoutOverviewPage.                                                   *)
(***************************************************************************)
CheckoutOverviewPage ==
    [itemNames |-> ByClass("inventory_item_name"),
     finishButton |-> ByDataTest("finish", NoId),
     cancelButton |-> ByDataTest("cancel", NoId)]

\* (await locator.allTextContents()).map(item => item.trim())
CheckoutOverviewPage_getItemNames(x, fault) ==
    Then(Await(x, EngineCall("allTextContents", CheckoutOverviewPage.itemNames, "", 0), fault),
         LAMBDA y : [y EXCEPT !.l = [i \in 1..Len(y.t) |-> trim(y.t[i])], !.t = <<>>])

\* clickFinish with the selector of the cancel button.
CheckoutOverviewPage_clickFinishOfCancelButton(x, fault) ==
    click(x, CheckoutOverviewPage.cancelButton, fault)

CheckoutOverviewPage_clickFinish(x, fault) ==
    click(x, CheckoutOverviewPage.finishButton, fault)

CheckoutOverviewPage_clickCancel(x, fault) ==
    click(x, CheckoutOverviewPage.cancelButton, fault)

(***************************************************************************)
(* CheckoutCompletePage.                                                   *)
(***************************************************************************)
CheckoutCompletePage ==
    [confirmationHeader |-> ByClass("complete-header"),
     confirmationMessage |-> ByClass("complete-text")]

CheckoutCompletePage_getConfirmationHeader(x, fault) ==
    getText(x, CheckoutCompletePage.confirmationHeader, fault)

\* headerVisible && messageVisible, both awaited first.
CheckoutCompletePage_isOrderComplete(x, fault) ==
    Then(isVisible(x, CheckoutCompletePage.confirmationHeader, fault), LAMBDA h :
        Then(isVisible(h, CheckoutCompletePage.confirmationMessage, fault), LAMBDA m :
            [m EXCEPT !.b = h.b /\ m.b]))

(***************************************************************************)
(* The state machine: the runner executes NumScenarios scenarios, one at a *)
(* time, each attempt in a fresh browser context.  A scenario is any       *)
(* sequence of page-object operations; an operation that throws fails the  *)
(* attempt.                                                                *)
(***************************************************************************)
\* retries: process.env.CI ? 2 : 0
RetriesOnCI == 2

\* A runner that retries without the CI flag as well.
retriesAlways == RetriesOnCI

retries == IF ci THEN RetriesOnCI ELSE 0

\* projects: every test is a scenario of each browser project.
projects == {"chromium", "firefox", "webkit"}

\* workers: one worker per browser project.
workersPerProject == Cardinality(projects)

\* workers: 1
workers == 1

\* forbidOnly switched off.
forbidOnlyNever == FALSE

\* forbidOnly: !!process.env.CI
forbidOnly == ci

\* The test a scenario executes: one of the two known-defect tests, whose
\* body is run as written, or any other sequence of page-object operations.
KnownDefectTests == {"TC-25", "TC-28"}

Tests == {"any"} \cup KnownDefectTests

\* No logout / login cycle under way.
NoSaved == [phase |-> "none", ctx |-> FreshContext]

\* The values the specifications hand to LoginPage.login.
Credentials == {"valid", "invalid"}

\* The arguments the specifications hand to fillCheckoutInfo (first name,
\* last name, postal code): testData.customerInfo.valid, the same with one
\* field left empty, and the names of testData.customerInfo.invalid.specialChars.
CustomerInfoInputs ==
    {<<"valid", "valid", "valid">>,
     <<"", "valid", "valid">>, <<"valid", "", "valid">>, <<"valid", "valid", "">>,
     <<"specialChars", "specialChars", "valid">>}

\* Where an engine fault may hit (0: no fault).
Faults == 0..MaxFaultAt

\* The product names the specifications use: those on sale and one that the
\* catalogue does not display.
ScenarioProducts == {ProductKeys[i] : i \in 1..(NumProducts + 1)}

\* What getCartBadgeCount and isProductAdded return in context c when the
\* engine does not fail.
BadgeCount(c) == ProductsPage_getCartBadgeCount(Begin(c), 0).n

AddedProducts(c) ==
    {p \in Products : ProductsPage_isProductAdded(Begin(c), testData_products[p], 0).b}

Init ==
    /\ ci \in BOOLEAN
    /\ scenario = 1
    /\ attempt = 0
    /\ ctx = FreshContext
    /\ saved = NoSaved
    /\ input = <<>>
    /\ pages = BasePage
    /\ status = "loading"
    /\ \E t \in Tests :
           run = [test |-> t, active |-> {}, error |-> "", failed |-> FALSE,
                  exit |-> "none"]

\* What loading the specifications ends in, with or without a test.only
\* marker left in them.
LoadStatus(only) == IF forbidOnly /\ only THEN "rejected" ELSE "running"

\* The runner loads the specifications; unless it rejects them, the first
\* scenario starts.
loadSpecifications ==
    /\ status = "loading"
    /\ \E only \in BOOLEAN :
           /\ status' = LoadStatus(only)
           /\ run' = [run EXCEPT !.active = IF LoadStatus(only) = "running"
                                             THEN {scenario} ELSE {}]
    /\ UNCHANGED <<ci, scenario, attempt, ctx, saved, input, pages>>

\* The context of an attempt that is over.
ClosedContext == [FreshContext EXCEPT !.page = "closed"]

\* The attempt of scenario s is over with error err ("": none): its context
\* is torn down.
TornDown(r, s, err) == [r EXCEPT !.active = @ \ {s}, !.error = err]

\* The history of a logout / login cycle: the context immediately before
\* the logout, kept while the next operation is the login that succeeds.
NextSaved(op, x) ==
    IF op = "logout" /\ ~x.threw THEN [phase |-> "loggedOut", ctx |-> ctx]
    ELSE IF op = "login" /\ saved.phase = "loggedOut" /\ ~x.threw /\ x.ctx.auth
    THEN [phase |-> "relogged", ctx |-> saved.ctx]
    ELSE NoSaved

\* One page-object operation of the running scenario, with outcome x: the
\* context is the one the operation leaves, and an operation that throws
\* fails the attempt.
Operation(op, x) ==
    /\ status = "running"
    /\ run.test = "any"
    /\ ctx' = IF x.threw THEN ClosedContext ELSE x.ctx
    /\ status' = IF x.threw THEN "failed" ELSE "running"
    /\ saved' = NextSaved(op, x)
    /\ run' = IF x.threw THEN TornDown(run, scenario, x.err) ELSE run
    /\ pages' = x.this
    /\ UNCHANGED <<ci, scenario, attempt, input>>

navigate ==
    \E f \in Faults : Operation("navigate", LoginPage_navigate(Begin(ctx), f))

\* page.goto(path) issued by a specification directly.
gotoPath ==
    \E path \in ProtectedPaths, f \in Faults :
        Operation("goto", goto(Begin(ctx), path, f))

login ==
    \E u \in Credentials, p \in Credentials, f \in Faults :
        Operation("login", LoginPage_login(Begin(ctx), u, p, f))

\* The logout of TC-15: burger menu, wait for the link, click it.
logout ==
    \E f \in Faults :
        Operation("logout",
                  click(Await(click(Begin(ctx), ById("react-burger-menu-btn"), f),
                              EngineCall("waitFor", ById("logout_sidebar_link"), "", 0), f),
                        ById("logout_sidebar_link"), f))

getErrorMessage ==
    \E f \in Faults :
        Operation("getErrorMessage", LoginPage_getErrorMessage(Begin(ctx), f))

isErrorDisplayed ==
    \E f \in Faults :
        Operation("isErrorDisplayed", LoginPage_isErrorDisplayed(Begin(ctx), f))

addProductToCart ==
    \E p \in ScenarioProducts, f \in Faults :
        Operation("addProductToCart",
                  ProductsPage_addProductToCart(Begin(ctx), testData_products[p], f))

removeProductFromCart ==
    \E p \in ScenarioProducts, f \in Faults :
        Operation("removeProductFromCart",
                  ProductsPage_removeProductFromCart(Begin(ctx), testData_products[p], f))

getCartBadgeCount ==
    \E f \in Faults :
        Operation("getCartBadgeCount", ProductsPage_getCartBadgeCount(Begin(ctx), f))

clickProductTitle ==
    \E p \in ScenarioProducts, f \in Faults :
        Operation("clickProductTitle",
                  ProductsPage_clickProductTitle(Begin(ctx), testData_products[p], f))

selectSortOption ==
    \E o \in SortOptions, f \in Faults :
        Operation("selectSortOption", ProductsPage_selectSortOption(Begin(ctx), o, f))

getProductNames ==
    \E f \in Faults :
        Operation("getProductNames", ProductsPage_getProductNames(Begin(ctx), f))

getProductPrices ==
    \E f \in Faults :
        Operation("getProductPrices", ProductsPage_getProductPrices(Begin(ctx), f))

isProductAdded ==
    \E p \in ScenarioProducts, f \in Faults :
        Operation("isProductAdded",
                  ProductsPage_isProductAdded(Begin(ctx), testData_products[p], f))

goToCart ==
    \E f \in Faults : Operation("goToCart", ProductsPage_goToCart(Begin(ctx), f))

getProductName ==
    \E f \in Faults :
        Operation("getProductName", ProductDetailsPage_getProductName(Begin(ctx), f))

addToCart ==
    \E f \in Faults :
        Operation("addToCart", ProductDetailsPage_addToCart(Begin(ctx), f))

removeFromCart ==
    \E f \in Faults :
        Operation("removeFromCart", ProductDetailsPage_removeFromCart(Begin(ctx), f))

isAddToCartButtonVisible ==
    \E f \in Faults :
        Operation("isAddToCartButtonVisible",
                  ProductDetailsPage_isAddToCartButtonVisible(Begin(ctx), f))

isRemoveButtonVisible ==
    \E f \in Faults :
        Operation("isRemoveButtonVisible",
                  ProductDetailsPage_isRemoveButtonVisible(Begin(ctx), f))

goBackToProducts ==
    \E f \in Faults :
        Operation("goBackToProducts", ProductDetailsPage_goBackToProducts(Begin(ctx), f))

getCartItemNames ==
    \E f \in Faults :
        Operation("getCartItemNames", CartPage_getCartItemNames(Begin(ctx), f))

removeItem ==
    \E p \in ScenarioProducts, f \in Faults :
        Operation("removeItem",
                  CartPage_removeItem(Begin(ctx), testData_products[p], f))

continueShopping ==
    \E f \in Faults :
        Operation("continueShopping", CartPage_continueShopping(Begin(ctx), f))

proceedToCheckout ==
    \E f \in Faults :
        Operation("proceedToCheckout", CartPage_proceedToCheckout(Begin(ctx), f))

isItemInCart ==
    \E p \in ScenarioProducts, f \in Faults :
        Operation("isItemInCart",
                  CartPage_isItemInCart(Begin(ctx), testData_products[p], f))

getCartItemCount ==
    \E f \in Faults :
        Operation("getCartItemCount", CartPage_getCartItemCount(Begin(ctx), f))

navigateToCart ==
    \E f \in Faults :
        Operation("navigateToCart", CartPage_navigateToCart(Begin(ctx), f))

isCartEmpty ==
    \E f \in Faults :
        Operation("isCartEmpty", CartPage_isCartEmpty(Begin(ctx), f))

isOrderComplete ==
    \E f \in Faults :
        Operation("isOrderComplete", CheckoutCompletePage_isOrderComplete(Begin(ctx), f))

fillCheckoutInfo ==
    \E info \in CustomerInfoInputs, f \in Faults :
        Operation("fillCheckoutInfo",
                  CheckoutInfoPage_fillCheckoutInfo(Begin(ctx), info[1], info[2], info[3], f))

clickContinue ==
    \E f \in Faults :
        Operation("clickContinue", CheckoutInfoPage_clickContinue(Begin(ctx), f))

getItemNames ==
    \E f \in Faults :
        Operation("getItemNames", CheckoutOverviewPage_getItemNames(Begin(ctx), f))

clickFinish ==
    \E f \in Faults :
        Operation("clickFinish", CheckoutOverviewPage_clickFinish(Begin(ctx), f))

clickCancel ==
    \E f \in Faults :
        Operation("clickCancel", CheckoutOverviewPage_clickCancel(Begin(ctx), f))

getConfirmationHeader ==
    \E f \in Faults :
        Operation("getConfirmationHeader",
                  CheckoutCompletePage_getConfirmationHeader(Begin(ctx), f))

(***************************************************************************)
(* The bodies of the two known-defect tests, run as written.  fs gives,    *)
(* for each page-object call of the body, the engine fault it meets.       *)
(***************************************************************************)
\* page.url()
URL(c) ==
    CASE c.page = "login" -> baseURL \o <<"/">>
      [] c.page = "inventory" -> baseURL \o <<"/", "i", "n", "v", "e", "n", "t", "o", "r", "y", ".", "h", "t", "m", "l">>
      [] c.page = "item" -> baseURL \o <<"/", "i", "n", "v", "e", "n", "t", "o", "r", "y", "-", "i", "t", "e", "m", ".", "h", "t", "m", "l">>
      [] c.page = "cart" -> baseURL \o <<"/", "c", "a", "r", "t", ".", "h", "t", "m", "l">>
      [] c.page = "step1" -> baseURL \o <<"/", "c", "h", "e", "c", "k", "o", "u", "t", "-", "s", "t", "e", "p", "-", "o", "n", "e", ".", "h", "t", "m", "l">>
      [] c.page = "step2" -> baseURL \o <<"/", "c", "h", "e", "c", "k", "o", "u", "t", "-", "s", "t", "e", "p", "-", "t", "w", "o", ".", "h", "t", "m", "l">>
      [] c.page = "complete" -> baseURL \o <<"/", "c", "h", "e", "c", "k", "o", "u", "t", "-", "c", "o", "m", "p", "l", "e", "t", "e", ".", "h", "t", "m", "l">>
      [] OTHER -> <<"a", "b", "o", "u", "t", ":", "b", "l", "a", "n", "k">>

\* The next statement of a test body: its engine calls are counted anew.
NextStatement(x) == [x EXCEPT !.log = <<>>]

\* await expect(page).toHaveURL(/.*<part>/)
ExpectURL(x, part) ==
    IF x.threw \/ Contains(URL(x.ctx), part) THEN x
    ELSE [x EXCEPT !.threw = TRUE, !.err = "expect"]

\* expect(<the boolean just returned>).toBe(true)
ExpectTrue(x) ==
    IF x.threw \/ x.b THEN x ELSE [x EXCEPT !.threw = TRUE, !.err = "expect"]

\* TC-25: Should prevent checkout with empty cart.
TC25(c, fs) ==
    ExpectURL(
        CartPage_proceedToCheckout(NextStatement(
            ExpectTrue(CartPage_isCartEmpty(NextStatement(
                ExpectURL(
                    ProductsPage_goToCart(NextStatement(
                        LoginPage_login(NextStatement(
                            LoginPage_navigate(Begin(c), fs[1])),
                            "valid", "valid", fs[2])), fs[3]),
                    <<"c", "a", "r", "t", ".", "h", "t", "m", "l">>)), fs[4]))), fs[5]),
        <<"c", "a", "r", "t", ".", "h", "t", "m", "l">>)

\* TC-28: Should validate special characters in name fields.
TC28(c, fs) ==
    ExpectURL(
        ExpectTrue(CheckoutInfoPage_isErrorDisplayed(NextStatement(
            CheckoutInfoPage_clickContinue(NextStatement(
                CheckoutInfoPage_fillCheckoutInfo(NextStatement(
                    ExpectURL(
                        CartPage_proceedToCheckout(NextStatement(
                            ProductsPage_goToCart(NextStatement(
                                ProductsPage_addProductToCart(NextStatement(
                                    LoginPage_login(NextStatement(
                                        LoginPage_navigate(Begin(c), fs[1])),
                                        "valid", "valid", fs[2])),
                                    testData_products.backpack, fs[3])), fs[4])), fs[5]),
                        <<"c", "h", "e", "c", "k", "o", "u", "t", "-", "s", "t", "e", "p", "-", "o", "n", "e", ".", "h", "t", "m", "l">>)),
                    "specialChars", "specialChars", "valid", fs[6])), fs[7])), fs[8])),
        <<"c", "h", "e", "c", "k", "o", "u", "t", "-", "s", "t", "e", "p", "-", "o", "n", "e", ".", "h", "t", "m", "l">>)

\* The faults an execution of a body of n page-object calls may meet: none,
\* or one, at any of its calls.
BodyFaults(n) ==
    {[i \in 1..n |-> 0]}
    \cup {[i \in 1..n |-> IF i = k THEN f ELSE 0] : k \in 1..n, f \in Faults \ {0}}

\* A whole test body executed in the scenario's context, with outcome x:
\* the attempt passes unless a call or an expectation has thrown.
TestBody(test, x) ==
    /\ status = "running"
    /\ run.test = test
    /\ ctx' = ClosedContext
    /\ status' = IF x.threw THEN "failed" ELSE "passed"
    /\ saved' = NoSaved
    /\ run' = TornDown(run, scenario, x.err)
    /\ pages' = x.this
    /\ UNCHANGED <<ci, scenario, attempt, input>>

runTC25 == \E fs \in BodyFaults(5) : TestBody("TC-25", TC25(ctx, fs))

runTC28 == \E fs \in BodyFaults(8) : TestBody("TC-28", TC28(ctx, fs))

\* An expect(...) of the scenario does not hold: the attempt fails.
expectMismatch ==
    /\ status = "running"
    /\ run.test = "any"
    /\ status' = "failed"
    /\ ctx' = ClosedContext
    /\ saved' = NoSaved
    /\ run' = TornDown(run, scenario, "expect")
    /\ UNCHANGED <<ci, scenario, attempt, input, pages>>

\* The scenario's body returns: the attempt passes.
scenarioPasses ==
    /\ status = "running"
    /\ run.test = "any"
    /\ status' = "passed"
    /\ ctx' = ClosedContext
    /\ saved' = NoSaved
    /\ run' = TornDown(run, scenario, "")
    /\ UNCHANGED <<ci, scenario, attempt, input, pages>>

\* The runner re-executes a failed scenario from its setup, in a fresh
\* context, while retries are left.
retryScenario ==
    /\ status = "failed"
    /\ attempt < retries
    /\ Cardinality(run.active) < workers
    /\ attempt' = attempt + 1
    /\ status' = "running"
    /\ ctx' = FreshContext
    /\ saved' = NoSaved
    /\ run' = [run EXCEPT !.active = @ \cup {scenario}, !.error = ""]
    /\ pages' = BasePage
    /\ UNCHANGED <<ci, scenario, input>>

\* nextScenario with a context made from a stored browser state that holds
\* a cart with the first product.
nextScenarioStoredCart ==
    /\ Cardinality(run.active) < workers
    /\ status \notin {"loading", "rejected"}
    /\ status = "failed" => attempt >= retries
    /\ scenario < NumScenarios
    /\ scenario' = scenario + 1
    /\ attempt' = 0
    /\ status' = "running"
    /\ ctx' = [FreshContext EXCEPT !.cart = {ProductKeys[1]}]
    /\ saved' = NoSaved
    /\ \E t \in Tests :
           run' = [run EXCEPT !.test = t, !.active = @ \cup {scenario + 1},
                              !.error = "", !.failed = @ \/ status = "failed"]
    /\ pages' = BasePage
    /\ UNCHANGED <<ci, input>>

\* The runner goes on to the next scenario, in a fresh context, once a worker
\* is free and the scenario that ran has no retry left to take.
nextScenario ==
    /\ Cardinality(run.active) < workers
    /\ status \notin {"loading", "rejected"}
    /\ status = "failed" => attempt >= retries
    /\ scenario < NumScenarios
    /\ scenario' = scenario + 1
    /\ attempt' = 0
    /\ status' = "running"
    /\ ctx' = FreshContext
    /\ saved' = NoSaved
    /\ \E t \in Tests :
           run' = [run EXCEPT !.test = t, !.active = @ \cup {scenario + 1},
                              !.error = "", !.failed = @ \/ status = "failed"]
    /\ pages' = BasePage
    /\ UNCHANGED <<ci, input>>

\* exitRun with the exit code 0 whatever happened.
exitRunAlwaysZero ==
    /\ run.exit = "none"
    /\ \/ status = "rejected"
       \/ /\ scenario = NumScenarios
          /\ run.active = {}
          /\ status = "passed" \/ (status = "failed" /\ attempt >= retries)
    /\ run' = [run EXCEPT !.failed = @ \/ status = "failed", !.exit = "zero"]
    /\ UNCHANGED <<ci, scenario, attempt, status, ctx, saved, input, pages>>

\* The run ends: at once when a forbidden "only" marker is found, otherwise
\* when the last scenario is over.  The exit code is non-zero when the run
\* was rejected or a scenario has failed.
exitRun ==
    /\ run.exit = "none"
    /\ \/ status = "rejected"
       \/ /\ scenario = NumScenarios
          /\ run.active = {}
          /\ status = "passed" \/ (status = "failed" /\ attempt >= retries)
    /\ run' = [run EXCEPT !.failed = @ \/ status = "failed",
                          !.exit = IF status = "rejected" \/ run.failed \/ status = "failed"
                                   THEN "nonzero" ELSE "zero"]
    /\ UNCHANGED <<ci, scenario, attempt, status, ctx, saved, input, pages>>

Next ==
    \/ navigate \/ gotoPath \/ login \/ logout \/ getErrorMessage \/ isErrorDisplayed
    \/ addProductToCart \/ removeProductFromCart \/ getCartBadgeCount
    \/ clickProductTitle \/ selectSortOption \/ getProductNames \/ getProductPrices
    \/ isProductAdded \/ goToCart
    \/ getProductName \/ addToCart \/ removeFromCart \/ isAddToCartButtonVisible
    \/ isRemoveButtonVisible \/ goBackToProducts
    \/ getCartItemNames \/ removeItem \/ continueShopping \/ proceedToCheckout
    \/ isItemInCart \/ getCartItemCount \/ navigateToCart \/ isCartEmpty
    \/ fillCheckoutInfo \/ clickContinue \/ getItemNames \/ clickFinish \/ clickCancel
    \/ getConfirmationHeader \/ isOrderComplete
    \/ runTC25 \/ runTC28
    \/ expectMismatch \/ scenarioPasses
    \/ loadSpecifications \/ retryScenario \/ nextScenario \/ exitRun

Spec == Init /\ [][Next]_vars


(***************************************************************************)
(* getProductId on its own: the name is any text of at most MaxNameLen     *)
(* characters over NameAlphabet, or a name of the fixture; the operation   *)
(* replaces it by its identifier.                                          *)
(***************************************************************************)
NameAlphabet == {"A", "b", " ", "\t", "-", "(", ")", "."}

RECURSIVE TextsUpTo(_)
TextsUpTo(n) ==
    IF n = 0 THEN {<<>>}
    ELSE TextsUpTo(n - 1)
         \cup {Append(s, ch) : s \in {t \in TextsUpTo(n - 1) : Len(t) = n - 1},
                               ch \in NameAlphabet}

FixtureNames == {testData_products[ProductKeys[i]] : i \in 1..Len(ProductKeys)}

InitNormalize ==
    /\ ci = FALSE
    /\ scenario = 1
    /\ attempt = 0
    /\ status = "running"
    /\ ctx = FreshContext
    /\ saved = NoSaved
    /\ run = [test |-> "any", active |-> {1}, error |-> "", failed |-> FALSE,
              exit |-> "none"]
    /\ input \in TextsUpTo(MaxNameLen) \cup FixtureNames
    /\ pages = BasePage

normalize ==
    /\ input' = getProductId(input)
    /\ UNCHANGED <<ci, scenario, attempt, status, ctx, saved, run, pages>>

SpecNormalize == InitNormalize /\ [][normalize]_vars


(***************************************************************************)
(* Observations used by the properties.                                    *)
(***************************************************************************)
\* The pages that show the header with the cart badge.
HeaderPages == {"inventory", "item", "cart", "step1", "step2", "complete"}

\* The session of context c showing the products page, where isProductAdded
\* reads the per-product buttons.
OnProductsPage(c) == AppGoto(c, "/inventory.html")

ProductNames(c) == ProductsPage_getProductNames(Begin(c), 0).l

ProductPrices(c) == ProductsPage_getProductPrices(Begin(c), 0).ns

Occurrences(s, v) == Cardinality({i \in DOMAIN s : s[i] = v})

IsPermutation(s, t) ==
    /\ Len(s) = Len(t)
    /\ \A i \in DOMAIN s : Occurrences(s, s[i]) = Occurrences(t, s[i])

\* names and prices (of the same rows) are ordered by the comparator of opt.
OrderedBy(names, prices, opt) ==
    \A i \in 1..(Len(names) - 1) :
        CASE opt = "az" -> TextLeq(names[i], names[i + 1])
          [] opt = "za" -> TextLeq(names[i + 1], names[i])
          [] opt = "lohi" -> prices[i] <= prices[i + 1]
          [] opt = "hilo" -> prices[i] >= prices[i + 1]

\* The outcomes of the boolean queries built on BasePage.isVisible, from
\* context c under engine fault f.
BooleanQueryOutcomes(c, f) ==
    {LoginPage_isErrorDisplayed(Begin(c), f),
     CheckoutInfoPage_isErrorDisplayed(Begin(c), f),
     ProductDetailsPage_isAddToCartButtonVisible(Begin(c), f),
     ProductDetailsPage_isRemoveButtonVisible(Begin(c), f),
     CheckoutCompletePage_isOrderComplete(Begin(c), f)}
    \cup {ProductsPage_isProductAdded(Begin(c), testData_products[p], f) :
              p \in ScenarioProducts}
    \cup {CartPage_isItemInCart(Begin(c), testData_products[p], f) : p \in ScenarioProducts}
    \cup {isVisible(Begin(c), sel, f) :
              sel \in {LoginPage.errorMessage, ProductsPage.productName,
                       ProductsPage.cartBadge}}

\* The outcomes of the other page-object operations.
ActionOutcomes(c, f) ==
    {LoginPage_navigate(Begin(c), f), LoginPage_getErrorMessage(Begin(c), f),
     ProductsPage_getCartBadgeCount(Begin(c), f), ProductsPage_getProductNames(Begin(c), f),
     ProductsPage_getProductPrices(Begin(c), f), ProductsPage_goToCart(Begin(c), f),
     ProductDetailsPage_getProductName(Begin(c), f),
     ProductDetailsPage_addToCart(Begin(c), f),
     ProductDetailsPage_removeFromCart(Begin(c), f),
     ProductDetailsPage_goBackToProducts(Begin(c), f),
     CartPage_getCartItemNames(Begin(c), f), CartPage_continueShopping(Begin(c), f),
     CartPage_proceedToCheckout(Begin(c), f), CartPage_getCartItemCount(Begin(c), f),
     CartPage_navigateToCart(Begin(c), f), CartPage_isCartEmpty(Begin(c), f),
     CheckoutInfoPage_clickContinue(Begin(c), f), CheckoutInfoPage_clickCancel(Begin(c), f),
     CheckoutInfoPage_getErrorMessage(Begin(c), f),
     CheckoutOverviewPage_getItemNames(Begin(c), f),
     CheckoutOverviewPage_clickFinish(Begin(c), f),
     CheckoutOverviewPage_clickCancel(Begin(c), f),
     CheckoutCompletePage_getConfirmationHeader(Begin(c), f)}
    \cup {CheckoutInfoPage_fillCheckoutInfo(Begin(c), info[1], info[2], info[3], f) :
              info \in CustomerInfoInputs}
    \cup {LoginPage_login(Begin(c), u, p, f) : u \in Credentials, p \in Credentials}
    \cup {ProductsPage_selectSortOption(Begin(c), o, f) : o \in SortOptions}
    \cup {ProductsPage_addProductToCart(Begin(c), testData_products[p], f) :
              p \in ScenarioProducts}
    \cup {ProductsPage_removeProductFromCart(Begin(c), testData_products[p], f) :
              p \in ScenarioProducts}
    \cup {ProductsPage_clickProductTitle(Begin(c), testData_products[p], f) :
              p \in ScenarioProducts}
    \cup {CartPage_removeItem(Begin(c), testData_products[p], f) : p \in ScenarioProducts}

PageObjectOutcomes(c, f) == BooleanQueryOutcomes(c, f) \cup ActionOutcomes(c, f)

(***************************************************************************)
(* Properties.                                                             *)
(***************************************************************************)
\* C1: in a logged-in session, after any sequence of products-page,
\* details-page and cart-page add and remove actions, getCartBadgeCount
\* returns the number of products for which isProductAdded (read on the
\* products page) is true, and 0 when no product is added.
C1_BadgeCountIsNumberAdded ==
    (ctx.auth /\ ctx.page \in HeaderPages) =>
        /\ BadgeCount(ctx) = Cardinality(AddedProducts(OnProductsPage(ctx)))
        /\ (AddedProducts(OnProductsPage(ctx)) = {} => BadgeCount(ctx) = 0)

\* C1 happens: two products are in the cart, one of them added on its
\* details page, and the badge reads 2.
C1_Witness ==
    /\ ctx.page = "item"
    /\ ctx.item \in ctx.cart
    /\ BadgeCount(ctx) = 2
    /\ Cardinality(AddedProducts(OnProductsPage(ctx))) = 2

\* C2: navigating to any protected path in a session that is not logged in
\* ends on the login page, not on the protected page, with the error
\* element visible and its text containing "Epic sadface".
C2_ProtectedPathsRedirect ==
    ~ctx.auth =>
        \A path \in ProtectedPaths :
            Then(goto(Begin(ctx), path, 0), LAMBDA x :
                /\ ~x.threw
                /\ x.ctx.page = "login"
                /\ x.ctx.page # PageOfPath(path)
                /\ LoginPage_isErrorDisplayed(Begin(x.ctx), 0).b
                /\ Contains(LoginPage_getErrorMessage(Begin(x.ctx), 0).t,
                            <<"E", "p", "i", "c", " ", "s", "a", "d", "f", "a", "c", "e">>))

\* C2 happens: a session that is not logged in has been sent back to the
\* login page, which shows the access error.
C2_Witness ==
    /\ ~ctx.auth
    /\ ctx.page = "login"
    /\ ctx.error = "access"
    /\ LoginPage_isErrorDisplayed(Begin(ctx), 0).b

\* C3: after a logout followed by a login with the same credentials in the
\* same context, the badge count and the isProductAdded flag of every
\* product are what they were immediately before the logout.
C3_CartSurvivesLogoutLogin ==
    saved.phase = "relogged" =>
        /\ BadgeCount(ctx) = BadgeCount(saved.ctx)
        /\ AddedProducts(ctx) = AddedProducts(OnProductsPage(saved.ctx))
        /\ (saved.ctx.page = "inventory" => AddedProducts(ctx) = AddedProducts(saved.ctx))

\* C3 happens: the cycle has been completed with two products in the cart.
C3_Witness ==
    /\ saved.phase = "relogged"
    /\ saved.ctx.page = "inventory"
    /\ Cardinality(AddedProducts(saved.ctx)) = 2
    /\ BadgeCount(ctx) = 2

\* C4: on the products page, for each sort option, the names and the prices
\* returned after selectSortOption are permutations of those displayed
\* before it, every price is a number, and they are ordered by the
\* comparator of the option.
C4_SortPermutesAndOrders ==
    (ctx.auth /\ ctx.page = "inventory") =>
        \A o \in SortOptions :
            Then(ProductsPage_selectSortOption(Begin(ctx), o, 0), LAMBDA x :
                /\ ~x.threw
                /\ IsPermutation(ProductNames(ctx), ProductNames(x.ctx))
                /\ IsPermutation(ProductPrices(ctx), ProductPrices(x.ctx))
                /\ \A i \in DOMAIN ProductPrices(x.ctx) : ProductPrices(x.ctx)[i] # NaN
                /\ Len(ProductNames(x.ctx)) = NumProducts
                /\ OrderedBy(ProductNames(x.ctx), ProductPrices(x.ctx), o))

\* C4 happens: the list has been sorted by price, low to high, and is not
\* in the order of the default display.
C4_Witness ==
    /\ ctx.page = "inventory"
    /\ ctx.sort = "lohi"
    /\ ProductPrices(ctx) # ProductPrices(OnProductsPage(ctx))
    /\ OrderedBy(ProductNames(ctx), ProductPrices(ctx), "lohi")
    /\ ~OrderedBy(ProductNames(ctx), ProductPrices(ctx), "az")

\* C5: selectSortOption with any sort option, whether the engine carries
\* it out or fails it, leaves the badge count and the isProductAdded flag
\* of every product as they were immediately before.
C5_SortKeepsCartState ==
    (ctx.auth /\ ctx.page = "inventory") =>
        \A o \in SortOptions, f \in Faults :
            Then(ProductsPage_selectSortOption(Begin(ctx), o, f), LAMBDA x :
                /\ (f = 0 => ~x.threw /\ x.ctx.sort = o)
                /\ BadgeCount(x.ctx) = BadgeCount(ctx)
                /\ AddedProducts(x.ctx) = AddedProducts(ctx))

\* C5 happens: the list is sorted otherwise than by default while two
\* products are added.
C5_Witness ==
    /\ ctx.page = "inventory"
    /\ ctx.sort = "za"
    /\ Cardinality(AddedProducts(ctx)) = 2
    /\ BadgeCount(ctx) = 2

\* C6: getProductId is idempotent for every name, and no two distinct
\* names of the known product set have the same identifier, so no two
\* products share an add-to-cart or remove locator.
C6_NormalizeIdempotentInjective ==
    /\ getProductId(getProductId(input)) = getProductId(input)
    /\ \A m \in FixtureNames, n \in FixtureNames :
           m # n =>
               /\ getProductId(m) # getProductId(n)
               /\ ProductsPage_getAddToCartButtonSelector(m)
                      # ProductsPage_getAddToCartButtonSelector(n)
               /\ ProductsPage_getRemoveButtonSelector(m)
                      # ProductsPage_getRemoveButtonSelector(n)

\* C6 happens: the name of a known product, with its two runs of white
\* space, has been replaced by its identifier, which the operation leaves
\* as it is.
C6_Witness ==
    /\ input = getProductId(testData_products.boltTShirt)
    /\ input # testData_products.boltTShirt
    /\ input = AppProductIds.boltTShirt

\* An engine call of outcome x has failed.
SomeCallFailed(x) == \E i \in DOMAIN x.log : ~x.log[i].ok

\* C8: BasePage.isVisible and every boolean query built on it never throw;
\* when a visibility check of theirs fails, through an engine fault or a
\* locator the engine rejects, they return false, as they do for an absent
\* element.
C8_IsVisibleNeverPropagates ==
    \A f \in Faults :
        \A x \in BooleanQueryOutcomes(ctx, f) :
            /\ ~x.threw
            /\ (SomeCallFailed(x) => x.b = FALSE)
            /\ x.ctx = ctx

\* C8 happens: the error element is displayed and isErrorDisplayed returns
\* true, but false when the engine fails the visibility check; for an
\* absent element (the cart badge) it returns false either way.
C8_Witness ==
    /\ ctx.page = "login"
    /\ LoginPage_isErrorDisplayed(Begin(ctx), 0).b
    /\ ~LoginPage_isErrorDisplayed(Begin(ctx), 1).b
    /\ SomeCallFailed(LoginPage_isErrorDisplayed(Begin(ctx), 1))
    /\ ~isVisible(Begin(ctx), ProductsPage.cartBadge, 0).b
    /\ ~isVisible(Begin(ctx), ProductsPage.cartBadge, 1).b

\* C9: an operation whose engine call other than a visibility check fails
\* throws at that call and issues no later call; a failed attempt takes no
\* further step of its scenario: the runner's next step starts an attempt
\* of the same scenario or the next scenario, running in a fresh context,
\* or, after the last scenario, ends the run;
\* scenarios are run one after the other, none left out, and after a
\* failure without retries left the next scenario is due.
C9_FailurePropagatesScenarioScoped ==
    /\ [](\A f \in Faults :
              \A x \in PageObjectOutcomes(ctx, f) :
                  \A i \in DOMAIN x.log :
                      (~x.log[i].ok /\ x.log[i].k # "isVisible") =>
                          (x.threw /\ i = Len(x.log)))
    /\ []((status = "failed" /\ attempt >= retries /\ scenario < NumScenarios)
              => ENABLED nextScenario)
    /\ [][/\ status = "failed" =>
                \/ /\ status' = "running"
                   /\ ctx' = FreshContext
                   /\ \/ scenario' = scenario /\ attempt' = attempt + 1
                      \/ scenario' = scenario + 1 /\ attempt' = 0
                \/ /\ scenario = NumScenarios
                   /\ run'.exit # "none"
                   /\ UNCHANGED <<status, ctx, scenario, attempt>>
          /\ scenario' # scenario =>
                /\ scenario' = scenario + 1
                /\ status \in {"passed", "failed"}
                /\ status' = "running"
                /\ ctx' = FreshContext]_vars

\* C9 happens: without retries, the first scenario has failed on an engine
\* call that failed, nothing more is done in it, and the next scenario is
\* due.
C9_Witness ==
    /\ scenario = 1
    /\ status = "failed"
    /\ ~ci
    /\ run.error = "engine"
    /\ ctx = ClosedContext
    /\ ENABLED nextScenario
    /\ ~ENABLED retryScenario

\* C10: no operation issues an engine call again after it has failed; the
\* attempt number changes only by the runner re-executing a failed scenario
\* in a fresh context, and never exceeds 2 under CI and 0 otherwise.
C10_OnlyRunnerRetries ==
    /\ [](\A f \in Faults :
              \A x \in PageObjectOutcomes(ctx, f) :
                  \A i \in DOMAIN x.log, j \in DOMAIN x.log :
                      (i < j /\ ~x.log[i].ok) =>
                          [k |-> x.log[j].k, sel |-> x.log[j].sel, i |-> x.log[j].i]
                              # [k |-> x.log[i].k, sel |-> x.log[i].sel, i |-> x.log[i].i])
    /\ [](attempt <= (IF ci THEN 2 ELSE 0))
    /\ [][attempt' # attempt =>
              \/ /\ attempt' = attempt + 1
                 /\ scenario' = scenario
                 /\ status = "failed"
                 /\ status' = "running"
                 /\ ctx' = FreshContext
                 /\ saved' = NoSaved
              \/ /\ attempt' = 0
                 /\ scenario' = scenario + 1]_vars

\* C10 happens: under CI the second re-execution of a scenario is running,
\* past the login.
C10_Witness ==
    /\ ci
    /\ attempt = 2
    /\ status = "running"
    /\ ctx.auth

\* The context after the setup every test starts with, when the engine does
\* not fail: LoginPage.navigate, then LoginPage.login with the valid pair.
AfterLogin(c) ==
    LoginPage_login(NextStatement(LoginPage_navigate(Begin(c), 0)), "valid", "valid", 0)

\* C11: every attempt of every scenario starts in a context of its own:
\* when the scenario or the attempt changes, the context is fresh and the
\* one before it is closed, so nothing of it (cart, session, page) is left;
\* whatever ran before, after the login that starts a scenario
\* getCartBadgeCount returns 0 and isProductAdded is false for every product.
C11_ScenariosIsolated ==
    /\ []((status = "running" /\ ctx.page = "blank") =>
              /\ ctx = FreshContext
              /\ saved = NoSaved
              /\ Then(AfterLogin(ctx), LAMBDA x :
                     /\ ~x.threw
                     /\ x.ctx.auth
                     /\ BadgeCount(x.ctx) = 0
                     /\ AddedProducts(x.ctx) = {}))
    /\ [][(scenario' # scenario \/ attempt' # attempt) =>
              /\ ctx = ClosedContext
              /\ ctx' = FreshContext
              /\ saved' = NoSaved]_vars

\* C11 happens: the second scenario, run after a scenario that failed, is
\* past its login, on the products page, with no product added.
C11_Witness ==
    /\ scenario = 2
    /\ run.failed
    /\ status = "running"
    /\ ctx = AfterLogin(FreshContext).ctx
    /\ ctx.page = "inventory"
    /\ BadgeCount(ctx) = 0
    /\ AddedProducts(ctx) = {}

\* C12: with workers 1 at most one scenario is executing at any time, the
\* one the runner is at; the runner goes to the next scenario only when the
\* one before it has passed or failed and its context has been torn down.
C12_OneScenarioAtATime ==
    /\ [](/\ Cardinality(run.active) <= 1
          /\ run.active \subseteq {scenario}
          /\ (status = "running") = (run.active = {scenario})
          /\ (status \in {"passed", "failed"}) = (ctx = ClosedContext))
    /\ [][scenario' # scenario =>
              /\ status \in {"passed", "failed"}
              /\ run.active = {}
              /\ ctx = ClosedContext
              /\ scenario' = scenario + 1
              /\ run'.active = {scenario'}]_vars

\* C12 happens: the second scenario is executing, alone, past its login.
C12_Witness ==
    /\ scenario = 2
    /\ status = "running"
    /\ run.active = {2}
    /\ ctx.auth
    /\ ctx.page = "cart"

\* No engine fault at any of the n page-object calls of a test body.
NoFaults(n) == [i \in 1..n |-> 0]

\* C13: TC-25 and TC-28 never pass: every execution, the first and every
\* retry, ends failed, and the runner counts the scenario as failed when it
\* leaves it; when the engine does not fail, the execution ends in the
\* failure of an expectation, on the page the application went to.
C13_KnownDefectTestsFail ==
    /\ [](run.test \in KnownDefectTests =>
              /\ status # "passed"
              /\ (status = "failed" => run.error \in {"expect", "engine"})
              /\ (status = "running" /\ run.test = "TC-25" =>
                      /\ TC25(ctx, NoFaults(5)).err = "expect"
                      /\ TC25(ctx, NoFaults(5)).ctx.page = "step1")
              /\ (status = "running" /\ run.test = "TC-28" =>
                      /\ TC28(ctx, NoFaults(8)).err = "expect"
                      /\ TC28(ctx, NoFaults(8)).ctx.page = "step2"))
    /\ [][(run.test \in KnownDefectTests /\ status # "rejected") =>
              /\ (status = "running" /\ status' # "running") => status' = "failed"
              /\ (scenario' # scenario \/ run'.exit # run.exit) => run'.failed
              /\ (run'.exit # run.exit) => run'.exit = "nonzero"]_vars

\* C13 happens: under CI the second retry of TC-25 has ended, failed by an
\* expectation, like the two executions before it.
C13_Witness ==
    /\ ci
    /\ run.test = "TC-25"
    /\ attempt = 2
    /\ status = "failed"
    /\ run.error = "expect"

CartItemNames(c) == CartPage_getCartItemNames(Begin(c), 0).l

CartItemCount(c) == CartPage_getCartItemCount(Begin(c), 0).n

Elements(s) == {s[i] : i \in DOMAIN s}

\* C15: from the login page, LoginPage.login with the valid pair ends on
\* the products page (the URL contains inventory.html, the inventory list
\* is visible); with any other pair the page stays the login page, a session
\* that was unauthenticated stays so, the error element is visible and its
\* text contains "Username and password do not match".
C15_LoginOutcome ==
    ctx.page = "login" =>
        \A u \in Credentials, p \in Credentials :
            Then(LoginPage_login(Begin(ctx), u, p, 0), LAMBDA x :
                /\ ~x.threw
                /\ IF u = "valid" /\ p = "valid"
                   THEN /\ x.ctx.auth
                        /\ x.ctx.page = "inventory"
                        /\ Contains(URL(x.ctx), <<"i", "n", "v", "e", "n", "t", "o", "r", "y", ".", "h", "t", "m", "l">>)
                        /\ isVisible(Begin(x.ctx), ByClass("inventory_list"), 0).b
                        /\ ~LoginPage_isErrorDisplayed(Begin(x.ctx), 0).b
                   ELSE /\ x.ctx.auth = ctx.auth
                        /\ x.ctx.page = "login"
                        /\ ~Contains(URL(x.ctx), <<"i", "n", "v", "e", "n", "t", "o", "r", "y", ".", "h", "t", "m", "l">>)
                        /\ LoginPage_isErrorDisplayed(Begin(x.ctx), 0).b
                        /\ Contains(LoginPage_getErrorMessage(Begin(x.ctx), 0).t,
                                    <<"U", "s", "e", "r", "n", "a", "m", "e", " ", "a", "n", "d", " ", "p", "a", "s", "s", "w", "o", "r", "d", " ", "d", "o", " ", "n", "o", "t", " ", "m", "a", "t", "c", "h">>))

\* C15 happens: a login with the valid user name and an invalid password
\* has left an unauthenticated session on the login page with the error.
C15_Witness ==
    /\ ctx.page = "login"
    /\ ~ctx.auth
    /\ ctx.username = "valid"
    /\ ctx.password = "invalid"
    /\ ctx.error = "mismatch"
    /\ LoginPage_isErrorDisplayed(Begin(ctx), 0).b

\* C16: on the cart page, CartPage.removeItem(p) for a product p of the
\* cart removes exactly p: getCartItemNames is what it was without p (p is
\* no longer in it, every other name still is, in the same order) and the
\* badge count is one less.
C16_RemoveItemRemovesExactlyIt ==
    (ctx.page = "cart" /\ ctx.auth) =>
        \A p \in ctx.cart :
            Then(CartPage_removeItem(Begin(ctx), testData_products[p], 0), LAMBDA x :
                /\ ~x.threw
                /\ x.ctx.page = "cart"
                /\ testData_products[p] \in Elements(CartItemNames(ctx))
                /\ testData_products[p] \notin Elements(CartItemNames(x.ctx))
                /\ CartItemNames(x.ctx)
                       = SelectSeq(CartItemNames(ctx), LAMBDA n : n # testData_products[p])
                /\ \A q \in ctx.cart \ {p} :
                       /\ testData_products[q] \in Elements(CartItemNames(x.ctx))
                       /\ CartPage_isItemInCart(Begin(x.ctx), testData_products[q], 0).b
                /\ ~CartPage_isItemInCart(Begin(x.ctx), testData_products[p], 0).b
                /\ CartItemCount(x.ctx) = CartItemCount(ctx) - 1
                /\ BadgeCount(x.ctx) = BadgeCount(ctx) - 1)

\* C16 happens: the cart page lists two products and removing the second
\* one leaves the first.
C16_Witness ==
    /\ ctx.page = "cart"
    /\ ctx.auth
    /\ Len(CartItemNames(ctx)) = 2
    /\ Then(CartPage_removeItem(Begin(ctx), CartItemNames(ctx)[2], 0), LAMBDA x :
           /\ ~x.threw
           /\ CartItemNames(x.ctx) = <<CartItemNames(ctx)[1]>>
           /\ BadgeCount(x.ctx) = 1)

\* The names of the products of cart, as the fixture gives them.
NamesOf(cart) == {testData_products[p] : p \in cart}

\* proceedToCheckout, fillCheckoutInfo, clickContinue from the cart page of
\* context c, when the engine does not fail.
CheckoutToOverview(c, info) ==
    CheckoutInfoPage_clickContinue(
        CheckoutInfoPage_fillCheckoutInfo(
            NextStatement(CartPage_proceedToCheckout(Begin(c), 0)),
            info[1], info[2], info[3], 0),
        0)

\* C17: from the cart page of a logged-in session with a non-empty cart,
\* proceedToCheckout, fillCheckoutInfo with three valid fields and
\* clickContinue end on the overview page, where getItemNames lists exactly
\* the products of the cart, each once; clickFinish then ends on the
\* completion page, where isOrderComplete is true and the header contains
\* "Thank you for your order".
C17_CheckoutCompletes ==
    (ctx.page = "cart" /\ ctx.auth /\ ctx.cart # {}) =>
        Then(CheckoutToOverview(ctx, <<"valid", "valid", "valid">>), LAMBDA x :
            /\ ~x.threw
            /\ x.ctx.page = "step2"
            /\ Contains(URL(x.ctx), <<"c", "h", "e", "c", "k", "o", "u", "t", "-", "s", "t", "e", "p", "-", "t", "w", "o", ".", "h", "t", "m", "l">>)
            /\ Then(CheckoutOverviewPage_getItemNames(Begin(x.ctx), 0), LAMBDA g :
                   /\ ~g.threw
                   /\ Elements(g.l) = NamesOf(ctx.cart)
                   /\ Len(g.l) = Cardinality(ctx.cart))
            /\ Then(CheckoutOverviewPage_clickFinish(Begin(x.ctx), 0), LAMBDA y :
                   /\ ~y.threw
                   /\ y.ctx.page = "complete"
                   /\ Contains(URL(y.ctx), <<"c", "h", "e", "c", "k", "o", "u", "t", "-", "c", "o", "m", "p", "l", "e", "t", "e", ".", "h", "t", "m", "l">>)
                   /\ CheckoutCompletePage_isOrderComplete(Begin(y.ctx), 0).b
                   /\ Contains(CheckoutCompletePage_getConfirmationHeader(Begin(y.ctx), 0).t,
                               <<"T", "h", "a", "n", "k", " ", "y", "o", "u", " ", "f", "o", "r", " ", "y", "o", "u", "r", " ", "o", "r", "d", "e", "r">>)))

\* C17 happens: the overview page lists the two products of the cart and
\* clickFinish leads to the completion page.
C17_Witness ==
    /\ ctx.page = "step2"
    /\ ctx.auth
    /\ Cardinality(ctx.cart) = 2
    /\ Len(CheckoutOverviewPage_getItemNames(Begin(ctx), 0).l) = 2
    /\ CheckoutCompletePage_isOrderComplete(
           Begin(CheckoutOverviewPage_clickFinish(Begin(ctx), 0).ctx), 0).b

\* The customer information with exactly one field left empty, and the
\* text that names the empty field.
OneFieldEmpty ==
    {info \in CustomerInfoInputs : Cardinality({k \in 1..3 : info[k] = ""}) = 1}

RequiredText(info) ==
    IF info[1] = "" THEN <<"F", "i", "r", "s", "t", " ", "N", "a", "m", "e", " ", "i", "s", " ", "r", "e", "q", "u", "i", "r", "e", "d">>
    ELSE IF info[2] = "" THEN <<"L", "a", "s", "t", " ", "N", "a", "m", "e", " ", "i", "s", " ", "r", "e", "q", "u", "i", "r", "e", "d">>
    ELSE <<"P", "o", "s", "t", "a", "l", " ", "C", "o", "d", "e", " ", "i", "s", " ", "r", "e", "q", "u", "i", "r", "e", "d">>

\* C18: on the checkout information page, after fillCheckoutInfo with
\* exactly one of the three fields empty, clickContinue stays on
\* checkout-step-one, the error element is visible and its text names the
\* empty field and no other.
C18_RequiredFields ==
    (ctx.page = "step1" /\ ctx.auth) =>
        \A info \in OneFieldEmpty :
            Then(CheckoutInfoPage_clickContinue(
                     CheckoutInfoPage_fillCheckoutInfo(Begin(ctx), info[1], info[2], info[3], 0),
                     0),
                 LAMBDA x :
                /\ ~x.threw
                /\ x.ctx.page = "step1"
                /\ Contains(URL(x.ctx), <<"c", "h", "e", "c", "k", "o", "u", "t", "-", "s", "t", "e", "p", "-", "o", "n", "e", ".", "h", "t", "m", "l">>)
                /\ x.ctx.cart = ctx.cart
                /\ CheckoutInfoPage_isErrorDisplayed(Begin(x.ctx), 0).b
                /\ Then(CheckoutInfoPage_getErrorMessage(Begin(x.ctx), 0).t, LAMBDA t :
                       \A other \in OneFieldEmpty :
                           Contains(t, RequiredText(other)) = (other = info)))

\* C18 happens: clickContinue with the last name empty has left the
\* information page with the error that names it.
C18_Witness ==
    /\ ctx.page = "step1"
    /\ ctx.firstName = "valid" /\ ctx.lastName = "" /\ ctx.postalCode = "valid"
    /\ ctx.error = "lastName"
    /\ Contains(CheckoutInfoPage_getErrorMessage(Begin(ctx), 0).t, <<"L", "a", "s", "t", " ", "N", "a", "m", "e", " ", "i", "s", " ", "r", "e", "q", "u", "i", "r", "e", "d">>)

\* The outcomes of the navigation operations from context c under engine
\* fault f: goToCart, continueShopping, clickProductTitle, goBackToProducts,
\* proceedToCheckout, clickContinue (alone, and after proceedToCheckout and
\* fillCheckoutInfo), clickCancel of the overview page.
NavigationOutcomes(c, f) ==
    {ProductsPage_goToCart(Begin(c), f),
     CartPage_continueShopping(Begin(c), f),
     ProductDetailsPage_goBackToProducts(Begin(c), f),
     CartPage_proceedToCheckout(Begin(c), f),
     CheckoutInfoPage_clickContinue(Begin(c), f),
     CheckoutInfoPage_clickContinue(
         NextStatement(CartPage_proceedToCheckout(Begin(c), f)), f),
     CheckoutOverviewPage_clickCancel(Begin(c), f)}
    \cup {ProductsPage_clickProductTitle(Begin(c), testData_products[p], f) :
              p \in ScenarioProducts}
    \cup {CheckoutInfoPage_clickContinue(
              CheckoutInfoPage_fillCheckoutInfo(
                  NextStatement(CartPage_proceedToCheckout(Begin(c), f)),
                  info[1], info[2], info[3], 0),
              0) : info \in CustomerInfoInputs}

\* C19: the navigation operations leave the cart as it was: whether they
\* succeed or throw, getCartBadgeCount and, on the products page,
\* isProductAdded of every product are the same after as before.
C19_NavigationKeepsCart ==
    (ctx.auth /\ ctx.page \in HeaderPages) =>
        \A f \in Faults : \A x \in NavigationOutcomes(ctx, f) :
            /\ x.ctx.auth
            /\ x.ctx.page \in HeaderPages
            /\ BadgeCount(x.ctx) = BadgeCount(ctx)
            /\ AddedProducts(OnProductsPage(x.ctx)) = AddedProducts(OnProductsPage(ctx))

\* C19 happens: on the overview page with two products in the cart,
\* clickCancel leads to the products page, where both are still added.
C19_Witness ==
    /\ ctx.auth
    /\ ctx.page = "step2"
    /\ BadgeCount(ctx) = 2
    /\ Then(CheckoutOverviewPage_clickCancel(Begin(ctx), 0), LAMBDA x :
           /\ ~x.threw
           /\ x.ctx.page = "inventory"
           /\ BadgeCount(x.ctx) = 2
           /\ AddedProducts(x.ctx) = ctx.cart)

\* C20: on the details page of a product exactly one of the two buttons is
\* visible: Remove when the product is in the cart (isProductAdded on the
\* products page), Add to Cart when it is not; addToCart and removeFromCart
\* exchange them, and the one whose button is not there throws and changes
\* nothing.
C20_OneButtonOnDetailsPage ==
    (ctx.auth /\ ctx.page = "item") =>
        Then(<<ProductDetailsPage_isAddToCartButtonVisible(Begin(ctx), 0).b,
               ProductDetailsPage_isRemoveButtonVisible(Begin(ctx), 0).b>>, LAMBDA v :
            /\ v[1] # v[2]
            /\ v[2] = (ctx.item \in AddedProducts(OnProductsPage(ctx)))
            /\ Then(IF v[2] THEN ProductDetailsPage_removeFromCart(Begin(ctx), 0)
                    ELSE ProductDetailsPage_addToCart(Begin(ctx), 0), LAMBDA x :
                   /\ ~x.threw
                   /\ x.ctx.page = "item" /\ x.ctx.item = ctx.item
                   /\ ProductDetailsPage_isAddToCartButtonVisible(Begin(x.ctx), 0).b = v[2]
                   /\ ProductDetailsPage_isRemoveButtonVisible(Begin(x.ctx), 0).b = v[1]
                   /\ AddedProducts(OnProductsPage(x.ctx)) \ {ctx.item}
                          = AddedProducts(OnProductsPage(ctx)) \ {ctx.item})
            /\ Then(IF v[2] THEN ProductDetailsPage_addToCart(Begin(ctx), 0)
                    ELSE ProductDetailsPage_removeFromCart(Begin(ctx), 0), LAMBDA x :
                   x.threw /\ x.ctx = ctx))

\* C20 happens: the details page of a product of the cart shows Remove and
\* not Add to Cart, while another product is in the cart as well.
C20_Witness ==
    /\ ctx.auth
    /\ ctx.page = "item"
    /\ ctx.item \in ctx.cart
    /\ Cardinality(ctx.cart) = 2
    /\ ProductDetailsPage_isRemoveButtonVisible(Begin(ctx), 0).b
    /\ ~ProductDetailsPage_isAddToCartButtonVisible(Begin(ctx), 0).b

\* The text of the error element of context c, none when it is not rendered.
RenderedError(c) == IF c.error = "none" THEN <<>> ELSE trim(ErrorText(c.error))

\* C21: on the login page and on the checkout information page
\* getErrorMessage never fails: it returns the trimmed text of the error
\* element when there is one and the empty string when there is none.
C21_GetErrorMessageNeverFails ==
    /\ ctx.page = "login" =>
           Then(LoginPage_getErrorMessage(Begin(ctx), 0), LAMBDA x :
               ~x.threw /\ x.t = RenderedError(ctx))
    /\ (ctx.page = "step1" /\ ctx.auth) =>
           Then(CheckoutInfoPage_getErrorMessage(Begin(ctx), 0), LAMBDA x :
               ~x.threw /\ x.t = RenderedError(ctx))

\* The part of C21 that holds: with the error element rendered,
\* getErrorMessage returns its trimmed text; without it, the text read
\* times out and getErrorMessage throws, having issued that one call.
C21_GetErrorMessageWithError ==
    /\ ctx.page = "login" =>
           Then(LoginPage_getErrorMessage(Begin(ctx), 0), LAMBDA x :
               /\ x.threw = (ctx.error = "none")
               /\ ~x.threw => (x.t = RenderedError(ctx) /\ x.t # <<>>)
               /\ Len(x.log) = 1 /\ x.ctx = ctx)
    /\ (ctx.page = "step1" /\ ctx.auth) =>
           Then(CheckoutInfoPage_getErrorMessage(Begin(ctx), 0), LAMBDA x :
               /\ x.threw = (ctx.error = "none")
               /\ ~x.threw => (x.t = RenderedError(ctx) /\ x.t # <<>>)
               /\ Len(x.log) = 1 /\ x.ctx = ctx)

\* C21 fails here: the login page right after navigate shows no error
\* element and getErrorMessage throws.
C21_Witness ==
    /\ ctx.page = "login"
    /\ ctx.error = "none"
    /\ LoginPage_getErrorMessage(Begin(ctx), 0).threw
    /\ ~LoginPage_isErrorDisplayed(Begin(ctx), 0).b

\* C22: getCartBadgeCount and getCartItemCount return 0 without throwing
\* whenever the badge is not rendered or the visibility check fails;
\* with the badge rendered and no engine failure they return the number it
\* shows, which is the number of products in the cart of the session as it
\* is at the call.
C22_BadgeCountReadFromPage ==
    (ctx.auth /\ ctx.page \in HeaderPages) =>
        \A f \in Faults :
            \A x \in {ProductsPage_getCartBadgeCount(Begin(ctx), f),
                      CartPage_getCartItemCount(Begin(ctx), f)} :
                /\ (ctx.cart = {} \/ f = 1) => (~x.threw /\ x.n = 0 /\ Len(x.log) = 1)
                /\ (ctx.cart # {} /\ f = 0) =>
                       /\ ~x.threw
                       /\ x.n = Cardinality(ctx.cart)
                       /\ NatText(x.n) = Query(ctx, ProductsPage.cartBadge)[1].text
                       /\ Len(x.log) = 2
                /\ x.ctx = ctx

\* C22 happens: on the cart page with an empty cart no badge is rendered
\* and getCartItemCount returns 0; with the visibility check failing on a
\* rendered badge the answer would be 0 as well.
C22_Witness ==
    /\ ctx.auth
    /\ ctx.page = "cart"
    /\ ctx.cart = {}
    /\ Query(ctx, CartPage.cartBadge) = <<>>
    /\ CartPage_getCartItemCount(Begin(ctx), 0).n = 0
    /\ ~CartPage_getCartItemCount(Begin(ctx), 0).threw

\* The elements that selector sel matches in the document of context c, in
\* document order.
Matching(c, sel) == Query(c, sel)

LoginCalls ==
    <<[k |-> "fill", sel |-> LoginPage.usernameInput],
      [k |-> "fill", sel |-> LoginPage.passwordInput],
      [k |-> "click", sel |-> LoginPage.loginButton]>>

FillCheckoutInfoCalls ==
    <<[k |-> "fill", sel |-> CheckoutInfoPage.firstNameInput],
      [k |-> "fill", sel |-> CheckoutInfoPage.lastNameInput],
      [k |-> "fill", sel |-> CheckoutInfoPage.postalCodeInput]>>

\* Execution x issued a prefix of calls, in their order, each after the one
\* before it had succeeded: all of them when none failed, and none after
\* the one that failed.
IssuedInOrder(x, calls) ==
    /\ Len(x.log) \in 1..Len(calls)
    /\ \A i \in 1..Len(x.log) :
           /\ x.log[i].k = calls[i].k
           /\ x.log[i].sel = calls[i].sel
           /\ (i < Len(x.log) => x.log[i].ok)
    /\ x.threw = ~x.log[Len(x.log)].ok
    /\ ~x.threw => Len(x.log) = Len(calls)

\* C24: login issues fill of the user name, fill of the password and the
\* click of the login button, in that order; fillCheckoutInfo issues the
\* fills of first name, last name and postal code, in that order; each call
\* is issued after the one before it has succeeded and, when a call fails
\* (by an engine fault at any position or for want of the element), the
\* operation throws without issuing the calls after it.
C24_CallsInProgramOrder ==
    \A f \in 0..Len(LoginCalls) :
        /\ \A u \in Credentials, p \in Credentials :
               Then(LoginPage_login(Begin(ctx), u, p, f), LAMBDA x :
                   /\ IssuedInOrder(x, LoginCalls)
                   /\ (ctx.page = "login" /\ f = 0) => ~x.threw
                   /\ (ctx.page = "login" /\ f # 0) => (x.threw /\ Len(x.log) = f))
        /\ \A info \in CustomerInfoInputs :
               Then(CheckoutInfoPage_fillCheckoutInfo(Begin(ctx), info[1], info[2], info[3], f),
                    LAMBDA x :
                   /\ IssuedInOrder(x, FillCheckoutInfoCalls)
                   /\ (ctx.page = "step1" /\ f = 0) =>
                          /\ ~x.threw
                          /\ x.ctx.firstName = info[1]
                          /\ x.ctx.lastName = info[2]
                          /\ x.ctx.postalCode = info[3]
                   /\ (ctx.page = "step1" /\ f # 0) => (x.threw /\ Len(x.log) = f))

\* C24 happens: on the checkout information page the three fields were
\* filled, the postal code with the empty text, and nothing else was done;
\* a failure of the second fill would leave the third unissued.
C24_Witness ==
    /\ ctx.page = "step1"
    /\ ctx.error = "none"
    /\ ctx.firstName = "valid" /\ ctx.lastName = "valid" /\ ctx.postalCode = ""
    /\ Len(CheckoutInfoPage_fillCheckoutInfo(Begin(ctx), "valid", "valid", "valid", 0).log) = 3
    /\ Len(CheckoutInfoPage_fillCheckoutInfo(Begin(ctx), "valid", "valid", "valid", 2).log) = 2

\* The outcomes, from context c under engine fault f, of the operations
\* whose body is one BasePage primitive or one engine call.
OneCallOutcomes(c, f) ==
    {LoginPage_navigate(Begin(c), f), LoginPage_getErrorMessage(Begin(c), f),
     LoginPage_isErrorDisplayed(Begin(c), f), ProductsPage_goToCart(Begin(c), f),
     ProductDetailsPage_getProductName(Begin(c), f),
     ProductDetailsPage_addToCart(Begin(c), f),
     ProductDetailsPage_removeFromCart(Begin(c), f),
     ProductDetailsPage_isAddToCartButtonVisible(Begin(c), f),
     ProductDetailsPage_isRemoveButtonVisible(Begin(c), f),
     ProductDetailsPage_goBackToProducts(Begin(c), f),
     CartPage_continueShopping(Begin(c), f), CartPage_proceedToCheckout(Begin(c), f),
     CartPage_navigateToCart(Begin(c), f), CartPage_getCartItemElementCount(Begin(c), f),
     CartPage_isCartEmpty(Begin(c), f),
     CheckoutInfoPage_clickContinue(Begin(c), f), CheckoutInfoPage_clickCancel(Begin(c), f),
     CheckoutInfoPage_getErrorMessage(Begin(c), f),
     CheckoutInfoPage_isErrorDisplayed(Begin(c), f),
     CheckoutOverviewPage_getItemNames(Begin(c), f),
     CheckoutOverviewPage_clickFinish(Begin(c), f),
     CheckoutOverviewPage_clickCancel(Begin(c), f),
     CheckoutCompletePage_getConfirmationHeader(Begin(c), f)}
    \cup {ProductsPage_selectSortOption(Begin(c), o, f) : o \in SortOptions}
    \cup {ProductsPage_addProductToCart(Begin(c), testData_products[p], f) :
              p \in ScenarioProducts}
    \cup {ProductsPage_removeProductFromCart(Begin(c), testData_products[p], f) :
              p \in ScenarioProducts}
    \cup {ProductsPage_isProductAdded(Begin(c), testData_products[p], f) :
              p \in ScenarioProducts}
    \cup {CartPage_removeItem(Begin(c), testData_products[p], f) : p \in ScenarioProducts}
    \cup {CartPage_isItemInCart(Begin(c), testData_products[p], f) : p \in ScenarioProducts}

\* ... of the operations that check the visibility and then may read.
TwoCallOutcomes(c, f) ==
    {ProductsPage_getCartBadgeCount(Begin(c), f), CartPage_getCartItemCount(Begin(c), f),
     CheckoutCompletePage_isOrderComplete(Begin(c), f)}

\* ... of login and fillCheckoutInfo.
ThreeCallOutcomes(c, f) ==
    {LoginPage_login(Begin(c), u, p, f) : u \in Credentials, p \in Credentials}
    \cup {CheckoutInfoPage_fillCheckoutInfo(Begin(c), info[1], info[2], info[3], f) :
              info \in CustomerInfoInputs}

\* The locators of the page objects: the constants of the classes, the
\* selectors computed from a product name, and none for page.goto.
PageObjectLocators ==
    {NoLocator}
    \cup {LoginPage[k] : k \in DOMAIN LoginPage}
    \cup {ProductsPage[k] : k \in DOMAIN ProductsPage}
    \cup {ProductDetailsPage[k] : k \in DOMAIN ProductDetailsPage}
    \cup {CartPage[k] : k \in DOMAIN CartPage}
    \cup {CheckoutInfoPage[k] : k \in DOMAIN CheckoutInfoPage}
    \cup {CheckoutOverviewPage[k] : k \in DOMAIN CheckoutOverviewPage}
    \cup {CheckoutCompletePage[k] : k \in DOMAIN CheckoutCompletePage}
    \cup UNION {{ProductsPage_getAddToCartButtonSelector(testData_products[p]),
                 ProductsPage_getRemoveButtonSelector(testData_products[p]),
                 CartPage_getRemoveButtonSelector(testData_products[p]),
                 CartPage_getCartItemSelector(testData_products[p])} :
                    p \in ScenarioProducts}

\* The position of the first title of context c whose trimmed text is
\* name; 0 when no title is.
FirstTitle(c, name) ==
    Then({i \in 1..Len(Query(c, ProductsPage.productName)) :
              trim(Query(c, ProductsPage.productName)[i].text) = name}, LAMBDA at :
        IF at = {} THEN 0 ELSE CHOOSE i \in at : \A j \in at : i <= j)

Clicks(x) == {i \in 1..Len(x.log) : x.log[i].k \in {"click", "nth.click"}}

\* C28: clickProductTitle(name) clicks exactly one element, the first title
\* in document order whose trimmed text is name, and returns (from the
\* products page, on the page of that product); when no title has that text
\* it clicks nothing and
\* fails with the error 'Product "<name>" not found'.
C28_ClickFirstMatchingTitle ==
    \A p \in ScenarioProducts :
        Then(ProductsPage_clickProductTitle(Begin(ctx), testData_products[p], 0), LAMBDA x :
        Then(FirstTitle(ctx, testData_products[p]), LAMBDA first :
            /\ first > 0 =>
                   /\ ~x.threw
                   /\ Clicks(x) = {Len(x.log)}
                   /\ x.log[Len(x.log)].sel = ProductsPage.productName
                   /\ x.log[Len(x.log)].i = first
                   /\ \A j \in 1..(first - 1) :
                          trim(Query(ctx, ProductsPage.productName)[j].text)
                              # testData_products[p]
                   /\ ctx.page = "inventory" => x.ctx.page = "item" /\ x.ctx.item = p
            /\ first = 0 =>
                   /\ x.threw
                   /\ x.err = "not-found"
                   /\ Clicks(x) = {}
                   /\ x.ctx = ctx))

\* C28 happens: on the products page sorted Z to A the title sought is not
\* the first one, and one product of the fixture is not listed.
C28_Witness ==
    /\ ctx.auth
    /\ ctx.page = "inventory"
    /\ ctx.sort = "za"
    /\ FirstTitle(ctx, testData_products[ProductKeys[1]]) = NumProducts
    /\ ~ProductsPage_clickProductTitle(Begin(ctx), testData_products[ProductKeys[1]], 0).threw
    /\ ProductsPage_clickProductTitle(Begin(ctx), testData_products[ProductKeys[NumProducts + 1]], 0).err
           = "not-found"

\* C30: in every reachable state of the cart page the three views of the
\* cart agree: getCartItemCount (the badge) is the length of
\* getCartItemNames, isCartEmpty is true exactly when getCartItemCount is 0,
\* and after continueShopping getCartBadgeCount of the products page returns
\* the same number.
C30_CartViewsAgree ==
    ctx.page = "cart" =>
        Then(CartPage_getCartItemCount(Begin(ctx), 0), LAMBDA count :
        Then(CartPage_getCartItemNames(Begin(ctx), 0), LAMBDA names :
        Then(CartPage_isCartEmpty(Begin(ctx), 0), LAMBDA empty :
        Then(CartPage_continueShopping(Begin(ctx), 0), LAMBDA shop :
            /\ ~count.threw /\ ~names.threw /\ ~empty.threw /\ ~shop.threw
            /\ count.n = Len(names.l)
            /\ count.n = Cardinality(ctx.cart)
            /\ empty.b = (count.n = 0)
            /\ shop.ctx.page = "inventory"
            /\ Then(ProductsPage_getCartBadgeCount(Begin(shop.ctx), 0), LAMBDA badge :
                   ~badge.threw /\ badge.n = count.n)))))

\* C30 happens: the cart page with one product in the cart, where the badge
\* reads 1 and the cart is not empty.
C30_Witness ==
    /\ ctx.page = "cart"
    /\ Cardinality(ctx.cart) = 1
    /\ CartPage_getCartItemCount(Begin(ctx), 0).n = 1
    /\ ~CartPage_isCartEmpty(Begin(ctx), 0).b

\* await expect(page).toHaveURL(/^(?!.*<part>).*$/)
ExpectURLWithout(x, part) ==
    IF x.threw \/ ~Contains(URL(x.ctx), part) THEN x
    ELSE [x EXCEPT !.threw = TRUE, !.err = "expect"]

\* The tests that request a protected path without a session, and the path
\* each requests (without the leading slash).
UnauthenticatedAccessTests == {"TC-14", "TC-30", "TC-31", "TC-32", "TC-33"}

RequestedPath(test) ==
    CASE test = "TC-14" -> <<"i", "n", "v", "e", "n", "t", "o", "r", "y", ".", "h", "t", "m", "l">>
      [] test = "TC-30" -> <<"c", "a", "r", "t", ".", "h", "t", "m", "l">>
      [] test = "TC-31" -> <<"c", "h", "e", "c", "k", "o", "u", "t", "-", "s", "t", "e", "p", "-", "o", "n", "e", ".", "h", "t", "m", "l">>
      [] test = "TC-32" -> <<"c", "h", "e", "c", "k", "o", "u", "t", "-", "s", "t", "e", "p", "-", "t", "w", "o", ".", "h", "t", "m", "l">>
      [] test = "TC-33" -> <<"c", "h", "e", "c", "k", "o", "u", "t", "-", "c", "o", "m", "p", "l", "e", "t", "e", ".", "h", "t", "m", "l">>

\* The path each of them hands to page.goto (TC-30 by navigateToCart).
NavigatedPath(test) ==
    CASE test = "TC-14" -> "/inventory.html"
      [] test = "TC-30" -> "/cart.html"
      [] test = "TC-31" -> "/checkout-step-one.html"
      [] test = "TC-32" -> "/checkout-step-two.html"
      [] test = "TC-33" -> "/checkout-complete.html"

\* The URL expectations of an unauthenticated-access test, on the outcome x
\* of its navigation: toHaveURL(/.*\//) and, but for TC-14,
\* toHaveURL(/^(?!.*<requested path>).*$/).
URLAssertions(test, x) ==
    IF test = "TC-14" THEN ExpectURL(x, <<"/">>)
    ELSE ExpectURLWithout(ExpectURL(x, <<"/">>), RequestedPath(test))

\* C29 as stated: the URL expectations of every unauthenticated-access test
\* pass only with the browser on the root login path and not on the path
\* the test requested.
C29_URLChecksRejectProtectedPath ==
    \A test \in UnauthenticatedAccessTests :
        ~URLAssertions(test, Begin(ctx)).threw =>
            /\ URL(ctx) = baseURL \o <<"/">>
            /\ URL(ctx) # baseURL \o <<"/">> \o RequestedPath(test)

\* What holds of the URL expectations: those of TC-30 to TC-33 pass only
\* with the browser off the requested path, and all of them pass on the root
\* login path, where the application sends a session that is not logged in.
C29_URLChecksOfCheckoutPaths ==
    /\ \A test \in UnauthenticatedAccessTests \ {"TC-14"} :
           ~URLAssertions(test, Begin(ctx)).threw =>
               URL(ctx) # baseURL \o <<"/">> \o RequestedPath(test)
    /\ \A test \in UnauthenticatedAccessTests :
           Then(goto(Begin(ctx), NavigatedPath(test), 0), LAMBDA x :
               ~ctx.auth => /\ ~URLAssertions(test, x).threw
                            /\ URL(x.ctx) = baseURL \o <<"/">>)

\* C29 fails here: the browser is on the inventory page and the URL
\* expectation of TC-14 passes.
C29_Witness ==
    /\ ctx.page = "inventory"
    /\ URL(ctx) = baseURL \o <<"/">> \o RequestedPath("TC-14")
    /\ ~URLAssertions("TC-14", Begin(ctx)).threw
    /\ ~URLAssertions("TC-30", Begin(ctx)).threw

(***************************************************************************)
(* The fixture record and the paths the specifications read from it.       *)
(***************************************************************************)
\* testData.sortOptions: fixture key -> value of the sort dropdown.
testData_sortOptions ==
    [nameAZ |-> "az", nameZA |-> "za", priceLowHigh |-> "lohi", priceHighLow |-> "hilo"]

\* The paths the fixture record defines.
testData_paths ==
    {<<"credentials", c, f>> : c \in {"valid", "invalid"}, f \in {"username", "password"}}
    \cup {<<"products", k>> : k \in DOMAIN testData_products}
    \cup {<<"customerInfo", "valid", f>> : f \in {"firstName", "lastName", "postalCode"}}
    \cup {<<"customerInfo", "invalid", "specialChars", f>> :
              f \in {"firstName", "lastName", "postalCode"}}
    \cup {<<"sortOptions", k>> : k \in DOMAIN testData_sortOptions}

\* The keys of testData.sortOptions read with the token names.
SortOptionReadsByToken == {"az", "za", "lohi", "hilo"}

\* The keys of testData.sortOptions that TC-16 to TC-19 read.
SortOptionReads == {"nameAZ", "nameZA", "priceLowHigh", "priceHighLow"}

\* Every testData.<path> the specifications read.
FixtureReads ==
    {<<"credentials", c, f>> : c \in {"valid", "invalid"}, f \in {"username", "password"}}
    \cup {<<"products", k>> :
              k \in {"backpack", "bikeLight", "boltTShirt", "fleeceJacket", "onesie"}}
    \cup {<<"customerInfo", "valid", f>> : f \in {"firstName", "lastName", "postalCode"}}
    \cup {<<"customerInfo", "invalid", "specialChars", f>> : f \in {"firstName", "lastName"}}
    \cup {<<"sortOptions", k>> : k \in SortOptionReads}

\* testData.sortOptions[key]: undefined for a key the record does not have.
ReadSortOption(key) ==
    IF key \in DOMAIN testData_sortOptions THEN testData_sortOptions[key] ELSE "undefined"

OperationOutcomes(c, f) ==
    OneCallOutcomes(c, f) \cup TwoCallOutcomes(c, f) \cup ThreeCallOutcomes(c, f)
    \cup {ProductsPage_getProductNames(Begin(c), f),
          ProductsPage_getProductPrices(Begin(c), f),
          CartPage_getCartItemNames(Begin(c), f)}
    \cup {ProductsPage_clickProductTitle(Begin(c), testData_products[p], f) :
              p \in ScenarioProducts}

\* The executions of the queries of the page objects from the start x0,
\* when the engine does not fail.
QueryOutcomes(x0) ==
    <<LoginPage_getErrorMessage(x0, 0), LoginPage_isErrorDisplayed(x0, 0),
      ProductsPage_getCartBadgeCount(x0, 0), ProductsPage_getProductNames(x0, 0),
      ProductsPage_getProductPrices(x0, 0), ProductDetailsPage_getProductName(x0, 0),
      ProductDetailsPage_isAddToCartButtonVisible(x0, 0),
      ProductDetailsPage_isRemoveButtonVisible(x0, 0),
      CartPage_getCartItemCount(x0, 0), CartPage_getCartItemNames(x0, 0),
      CartPage_getCartItemElementCount(x0, 0), CartPage_isCartEmpty(x0, 0),
      CheckoutInfoPage_getErrorMessage(x0, 0), CheckoutInfoPage_isErrorDisplayed(x0, 0),
      CheckoutOverviewPage_getItemNames(x0, 0),
      CheckoutCompletePage_getConfirmationHeader(x0, 0),
      CheckoutCompletePage_isOrderComplete(x0, 0)>>

\* What an execution hands back to its caller.
Returned(x) == [threw |-> x.threw, b |-> x.b, n |-> x.n, t |-> x.t, l |-> x.l, ns |-> x.ns]

\* C25: page objects are stateless between calls: in every state the fields
\* of the page objects (the automation handle, the base URL) are those the
\* constructor set, no operation changes one, a query leaves the session as
\* it is, and what a query returns is what it returns on page objects made
\* anew over the same session, whatever operations were called before.
C25_PageObjectsStateless ==
    /\ pages = BasePage
    /\ \A f \in Faults : \A x \in OperationOutcomes(ctx, f) : x.this = pages
    /\ Then(QueryOutcomes(Begin(ctx)), LAMBDA called :
       Then(QueryOutcomes([Begin(ctx) EXCEPT !.this = BasePage]), LAMBDA anew :
           \A i \in DOMAIN called :
               called[i].ctx = ctx /\ Returned(called[i]) = Returned(anew[i])))

\* C25 happens: operations have been called (login, addProductToCart,
\* goToCart) and the page objects hold what the constructor set.
C25_Witness ==
    /\ ctx.page = "cart"
    /\ ctx.cart # {}
    /\ status = "running"
    /\ pages.page = "page"
    /\ pages.baseURL = baseURL

=============================================================================
